---------------------------- MODULE Spec2Model ----------------------------
(***************************************************************************)
(* A model of the SimpleUI compiler front end: the AST value classes       *)
(* (ast_nodes.py), the tree transformer and Parser.parse (parser.py) and   *)
(* the hand-written Lexer (lexer.py).                                      *)
(*                                                                         *)
(* Text is modelled as a sequence of one-character strings, so that case   *)
(* conversion, prefix tests and digit conversion are computed, character   *)
(* by character, as the Python code computes them.                         *)
(***************************************************************************)
EXTENDS Integers, Sequences, FiniteSets, TLC

VARIABLES
  source,   \* Parser.parse: the token stream of the text being parsed
  ip,       \* Parser.parse: index of the next token of source
  args,     \* the children collected for the shape rule being reduced
  props,    \* SimpleUITransformer.shape: its local props dict (last call)
  shapes,   \* the Shapes reduced so far in this parse call
  pstate,   \* "idle" | "parsing" | "returned" | "raised"
  result,   \* the ShapeList returned by the last parse call (None before)
  error,    \* the exception raised by the last parse call ("none" if none)
  calls,    \* number of parse calls started on this Parser instance
  first,    \* for every source already parsed to completion: its outcome
  hexin,    \* Color: the hex_value arguments of the constructor calls
  colors,   \* Color: the objects constructed so far, in call order
  again,    \* Color: Color(colors[1].hex_value), None before it is built
  eq,       \* Color: Some(colors[1] == colors[2]), None before compared
  lsource,  \* Lexer: self.source
  sc,       \* Lexer: self.pos, self.line, self.column
  tokens,   \* Lexer: self.tokens
  lstate,   \* Lexer: "ready" | "scanning" | "returned" | "raised"
  lerror,   \* Lexer: the LexerError raised by the last tokenize (None if none)
  tcalls,   \* Lexer: number of tokenize calls started on this Lexer
  csource,  \* SimpleUICompiler: the source_code of the last compile_string
  verbose,  \* SimpleUICompiler: self.verbose
  cstate,   \* compile_string: "idle" | "parsing" | "returned" | "raised"
  clabel,   \* compile_string: the label of the CompilerError raised ("" if none)
  cexc,     \* compile_string: the class of the exception that left it ("" if none)
  ccode,    \* compile_string: the code it returned (None if none)
  editor,   \* SimpleUIApp: the content of self.text_editor
  astate,   \* compile_and_render: "idle" | "parsing" | "drawing" | "rendered" | "failed" | "rejected"
  canvas,   \* SimpleUIApp: the Shapes drawn on the canvas since it was last cleared
  status,   \* SimpleUIApp: the text and kind of self.status_label
  dialogs,  \* SimpleUIApp: number of error dialogs shown
  trace,    \* compile_and_render: the calls of the current run, in order
  finput,   \* compile_file: its input_file argument
  run,      \* compile_file: its run argument
  fstate,   \* compile_file: "idle" | "compiling" | "written" | "returned" | "raised"
  ferror,   \* compile_file: the message of the CompilerError it raised ("" if none)
  output,   \* the content of the output file (None while it does not exist)
  executed  \* the programs run by subprocess.run, in order

pvars == <<source, ip, args, props, shapes, pstate, result, error, calls, first>>

cvars == <<hexin, colors, again, eq>>

lvars == <<lsource, sc, tokens, lstate, lerror, tcalls>>

kvars == <<csource, verbose, cstate, clabel, cexc, ccode>>

avars == <<editor, astate, canvas, status, dialogs, trace>>

fvars == <<finput, run, fstate, ferror, output, executed>>

-----------------------------------------------------------------------------
(* Bounds of the model *)

\* longest statement list drawn for one parse call (in grammar items)
MaxItems == 2
\* longest program drawn from the statement pool (in statements)
MaxStmts == 3
\* parse calls made on one Parser instance
MaxCalls == 3
\* longest source of a Lexer (in pieces of the piece pool)
MaxChunks == 2
\* tokenize calls made on one Lexer
MaxTokenize == 2
\* longest source that whitespace or a comment is inserted into (in pieces)
MaxPieces == 2

-----------------------------------------------------------------------------
(* Text *)

LowerLetters ==
  <<"a","b","c","d","e","f","g","h","i","j","k","l","m",
    "n","o","p","q","r","s","t","u","v","w","x","y","z">>

UpperLetters ==
  <<"A","B","C","D","E","F","G","H","I","J","K","L","M",
    "N","O","P","Q","R","S","T","U","V","W","X","Y","Z">>

Digits == <<"0","1","2","3","4","5","6","7","8","9">>

IndexIn(c, table) == CHOOSE i \in 1..Len(table) : table[i] = c

IsIn(c, table) == \E i \in 1..Len(table) : table[i] = c

\* str.upper, one character
UpperChar(c) == IF IsIn(c, LowerLetters) THEN UpperLetters[IndexIn(c, LowerLetters)] ELSE c

\* str.lower, one character
LowerChar(c) == IF IsIn(c, UpperLetters) THEN LowerLetters[IndexIn(c, UpperLetters)] ELSE c

\* str.upper
Upper(s) == [i \in 1..Len(s) |-> UpperChar(s[i])]

\* str.lower
Lower(s) == [i \in 1..Len(s) |-> LowerChar(s[i])]

\* str.startswith('#')
StartsWithHash(s) == Len(s) > 0 /\ s[1] = "#"

\* Python's None and a present value
None == <<>>
Some(v) == <<v>>

-----------------------------------------------------------------------------
(* ast_nodes.py *)

\* Color(hex_value) followed by __post_init__: the stored hex_value
ColorNoUpper(hex_value) ==
  [hex_value |-> IF StartsWithHash(hex_value) THEN hex_value ELSE <<"#">> \o hex_value]

ColorNoPrefix(hex_value) ==
  [hex_value |-> Upper(hex_value)]

Color(hex_value) ==
  [hex_value |-> Upper(IF StartsWithHash(hex_value) THEN hex_value ELSE <<"#">> \o hex_value)]

\* the dataclass-generated Color.__eq__: field by field
ColorEq(a, b) == a.hex_value = b.hex_value

Position(x, y) == [x |-> x, y |-> y]

Size(width, height) == [width |-> width, height |-> height]

Shape(shape_type, position, size, fill_color, outside_color, rounded) ==
  [shape_type |-> shape_type, position |-> position, size |-> size,
   fill_color |-> fill_color, outside_color |-> outside_color, rounded |-> rounded]

ShapeList(ss) == [shapes |-> ss]

-----------------------------------------------------------------------------
(* Lark tokens of grammar.lark.  A token is its terminal name and its text. *)

Tok(type, value) == [type |-> type, value |-> value]

\* the three terminals that carry a value ...
TNumber(text) == Tok("NUMBER", text)
THex(text) == Tok("HEX", text)
TName(text) == Tok("NAME", text)

\* ... the keyword and punctuation terminals, which Lark filters out of the
\* children of a rule ...
KPx == Tok("PX", <<"p","x">>)
KLeft == Tok("LEFT", <<"l","e","f","t">>)
KTop == Tok("TOP", <<"t","o","p">>)
KW == Tok("W", <<"w">>)
KH == Tok("H", <<"h">>)
KFill == Tok("FILL", <<"f","i","l","l">>)
KOutside == Tok("OUTSIDE", <<"o","u","t","s","i","d","e">>)
KRounded == Tok("ROUNDED", <<"r","o","u","n","d","e","d">>)
KColon == Tok("COLON", <<":">>)
KComma == Tok("COMMA", <<",">>)
KSemi == Tok("SEMICOLON", <<";">>)

\* ... and the named terminals of the shape_name rule, which are kept
KRectangle == Tok("RECTANGLE", <<"r","e","c","t","a","n","g","l","e">>)
KCircle == Tok("CIRCLE", <<"c","i","r","c","l","e">>)
KLine == Tok("LINE", <<"l","i","n","e">>)

ShapeNameTypes == {"RECTANGLE", "CIRCLE", "LINE"}

ColorTypes == {"HEX", "NAME"}

HexDigitChars ==
  {"0","1","2","3","4","5","6","7","8","9",
   "a","b","c","d","e","f","A","B","C","D","E","F"}

\* the text of a HEX terminal: '#' and six hex digits in any letter case
HexPattern(t) ==
  /\ Len(t) = 7
  /\ t[1] = "#"
  /\ \A i \in 2..Len(t) : t[i] \in HexDigitChars

\* the text of a NAME terminal: letters
NamePattern(t) ==
  /\ Len(t) >= 1
  /\ \A i \in 1..Len(t) : IsIn(t[i], LowerLetters) \/ IsIn(t[i], UpperLetters)

\* the text of a NUMBER terminal: digits, then optionally '.' and digits
NumberPattern(t) ==
  /\ Len(t) >= 1
  /\ \A i \in 1..Len(t) : IsIn(t[i], Digits) \/ t[i] = "."
  /\ Cardinality({i \in 1..Len(t) : t[i] = "."}) <= 1
  /\ t[1] # "."
  /\ t[Len(t)] # "."

\* a token Lark's lexer can produce
TerminalMatches(tok) ==
  CASE tok.type = "HEX" -> HexPattern(tok.value)
    [] tok.type = "NAME" -> NamePattern(tok.value)
    [] tok.type = "NUMBER" -> NumberPattern(tok.value)
    [] OTHER -> TRUE

Lexed(toks) == \A i \in 1..Len(toks) : TerminalMatches(toks[i])

\* the terminal Lark's lexer finds at place i of a text: "$END" past the
\* end, "$NONE" where the text matches no terminal
TypeAt(toks, i) ==
  IF i >= 1 /\ i <= Len(toks)
    THEN IF TerminalMatches(toks[i]) THEN toks[i].type ELSE "$NONE"
    ELSE "$END"

TypesFrom(toks, i, n) == [k \in 1..n |-> TypeAt(toks, i + k - 1)]

\* The alternative of the property rule whose right-hand side starts at
\* token i of toks ("none" when no alternative does).
PropertyRule(toks, i) ==
  CASE TypesFrom(toks, i, 3) = <<"NUMBER", "PX", "LEFT">> -> "left_pos"
    [] TypesFrom(toks, i, 3) = <<"NUMBER", "PX", "TOP">> -> "top_pos"
    [] TypesFrom(toks, i, 4) = <<"W", "COLON", "NUMBER", "PX">> -> "width"
    [] TypesFrom(toks, i, 4) = <<"H", "COLON", "NUMBER", "PX">> -> "height"
    [] TypesFrom(toks, i, 2) = <<"FILL", "COLON">> /\ TypeAt(toks, i + 2) \in ColorTypes -> "fill"
    [] TypesFrom(toks, i, 2) = <<"OUTSIDE", "COLON">> /\ TypeAt(toks, i + 2) \in ColorTypes -> "outside"
    [] TypeAt(toks, i) = "ROUNDED" -> "rounded"
    [] OTHER -> "none"

\* number of tokens of each alternative
RuleLength(rule) ==
  CASE rule \in {"left_pos", "top_pos", "fill", "outside"} -> 3
    [] rule \in {"width", "height"} -> 4
    [] rule = "rounded" -> 1
    [] OTHER -> 0

\* offset of the value-carrying token of each alternative (rounded has none)
RuleValueOffset(rule) ==
  CASE rule \in {"left_pos", "top_pos"} -> 0
    [] rule \in {"width", "height", "fill", "outside"} -> 2
    [] OTHER -> 0

\* "property ','" starts at token i
PropertyAt(toks, i) ==
  /\ PropertyRule(toks, i) # "none"
  /\ TypeAt(toks, i + RuleLength(PropertyRule(toks, i))) = "COMMA"

\* the terminals a statement can start with
StatementStartTypes ==
  {"NUMBER", "W", "H", "FILL", "OUTSIDE", "ROUNDED"} \cup ShapeNameTypes

\* "shape_name ';'" starts at token i and the LALR(1) driver reduces the
\* shape rule: it does so on reading a token that can follow a statement
ShapeEndAt(toks, i) ==
  /\ TypeAt(toks, i) \in ShapeNameTypes
  /\ TypeAt(toks, i + 1) = "SEMICOLON"
  /\ TypeAt(toks, i + 2) \in StatementStartTypes \cup {"$END"}

-----------------------------------------------------------------------------
(* float(token.value) for a NUMBER literal: the decimal numeral's value,   *)
(* as its integer part and its fraction digits without trailing zeros      *)
(* (literals of this length convert to distinct floats exactly when these  *)
(* differ).                                                                *)

DigitVal(c) == IndexIn(c, Digits) - 1

RECURSIVE IntOf(_)
IntOf(s) ==
  IF s = <<>> THEN 0
  ELSE 10 * IntOf(SubSeq(s, 1, Len(s) - 1)) + DigitVal(s[Len(s)])

RECURSIVE StripZeros(_)
StripZeros(s) ==
  IF s # <<>> /\ s[Len(s)] = "0" THEN StripZeros(SubSeq(s, 1, Len(s) - 1)) ELSE s

DotAt(s) == IF IsIn(".", s) THEN IndexIn(".", s) ELSE Len(s) + 1

Float(text) ==
  [whole |-> IntOf(SubSeq(text, 1, DotAt(text) - 1)),
   frac |-> StripZeros(SubSeq(text, DotAt(text) + 1, Len(text)))]

\* the literal 0.0
Zero == [whole |-> 0, frac |-> <<>>]

-----------------------------------------------------------------------------
(* parser.py: SimpleUITransformer *)

Black == <<"#","0","0","0","0","0","0">>

\* the color_map dict of NAME
color_map ==
  (<<"b","l","a","c","k">> :> Black)
  @@ (<<"w","h","i","t","e">> :> <<"#","F","F","F","F","F","F">>)
  @@ (<<"r","e","d">> :> <<"#","F","F","0","0","0","0">>)
  @@ (<<"g","r","e","e","n">> :> <<"#","0","0","F","F","0","0">>)
  @@ (<<"b","l","u","e">> :> <<"#","0","0","0","0","F","F">>)
  @@ (<<"y","e","l","l","o","w">> :> <<"#","F","F","F","F","0","0">>)
  @@ (<<"c","y","a","n">> :> <<"#","0","0","F","F","F","F">>)
  @@ (<<"m","a","g","e","n","t","a">> :> <<"#","F","F","0","0","F","F">>)
  @@ (<<"g","r","a","y">> :> <<"#","8","0","8","0","8","0">>)
  @@ (<<"g","r","e","y">> :> <<"#","8","0","8","0","8","0">>)

\* dict.get(key, default)
DictGet(d, key, default) == IF key \in DOMAIN d THEN d[key] ELSE default

NUMBER(token) == Float(token.value)

HEX(token) == Color(token.value)

NameCaseSensitive(token) == Color(DictGet(color_map, token.value, Black))

NAME(token) == Color(DictGet(color_map, Lower(token.value), Black))

\* the terminal callback Lark applies to a token before it becomes a child
Terminal(token) ==
  CASE token.type = "NUMBER" -> NUMBER(token)
    [] token.type = "HEX" -> HEX(token)
    [] token.type = "NAME" -> NAME(token)
    [] OTHER -> token

left_pos(a) == <<"left", a[1]>>

TopAsLeft(a) == <<"left", a[1]>>

top_pos(a) == <<"top", a[1]>>

width(a) == <<"width", a[1]>>

height(a) == <<"height", a[1]>>

fill(a) == <<"fill", a[1]>>

outside(a) == <<"outside", a[1]>>

rounded(a) == <<"rounded", TRUE>>

color(a) == a[1]

property(a) == a[1]

shape_name(a) == IF a # <<>> THEN a[1].value ELSE None

\* the rule callback of a property alternative, the property rule on top
PropertyCallback(rule, a) ==
  property(<<CASE rule = "left_pos" -> left_pos(a)
               [] rule = "top_pos" -> top_pos(a)
               [] rule = "width" -> width(a)
               [] rule = "height" -> height(a)
               [] rule = "fill" -> fill(<<color(a)>>)
               [] rule = "outside" -> outside(<<color(a)>>)
               [] rule = "rounded" -> rounded(<<>>)>>)

\* the children of the property alternative that starts at token i
PropertyChildren(toks, i) ==
  IF PropertyRule(toks, i) = "rounded" THEN <<>>
  ELSE <<Terminal(toks[i + RuleValueOffset(PropertyRule(toks, i))])>>

\* the props dict a call of shape starts from; every entry is held as
\* None or Some(value)
DefaultProps ==
  [left |-> Some(Zero), top |-> Some(Zero),
   width |-> None, height |-> None,
   fill |-> None, outside |-> None,
   rounded |-> Some(FALSE)]

StaleProps == props

\* a props dict whose width and height are those the last call of shape left
CarriedSize == [DefaultProps EXCEPT !.width = props.width, !.height = props.height]

FreshProps == DefaultProps

\* props[key] = value
SetFirstOnly(p, key, value) == IF p[key] = DefaultProps[key] THEN [p EXCEPT ![key] = Some(value)] ELSE p

SetProp(p, key, value) == [p EXCEPT ![key] = Some(value)]

\* the loop over args[:-1]
RECURSIVE ApplyProps(_, _)
ApplyProps(p, tuples) ==
  IF tuples = <<>> THEN p
  ELSE ApplyProps(IF Len(tuples[1]) = 2 THEN SetProp(p, tuples[1][1], tuples[1][2]) ELSE p,
                  Tail(tuples))

\* props after the loop of shape(args)
ShapeProps(a) == ApplyProps(FreshProps, SubSeq(a, 1, Len(a) - 1))

\* the validation of shape, taking a zero for a missing value
MissingOrZero(p) ==
  \/ p.width = None \/ p.width = Some(Zero)
  \/ p.height = None \/ p.height = Some(Zero)

\* the validation of shape
MissingBoth(p) == p.width = None /\ p.height = None

MissingSize(p) == p.width = None \/ p.height = None

\* x or Color('#000000'): a Color object is always true
KeepNone(x) == IF x = None THEN None ELSE x[1]

OrBlack(x) == IF x = None THEN Color(Black) ELSE x[1]

\* the Shape constructed by shape(args) from the final props p
BuildShape(a, p) ==
  Shape(a[Len(a)],
        Position(p.left[1], p.top[1]),
        Size(IF p.width = None THEN None ELSE p.width[1],
             IF p.height = None THEN None ELSE p.height[1]),
        OrBlack(p.fill),
        OrBlack(p.outside),
        p.rounded[1])

\* the ValueError shape(args) raises ("" when it returns a Shape)
ShapeError(a) ==
  IF a = <<>> THEN "No arguments received for shape"
  ELSE IF MissingSize(ShapeProps(a)) THEN "Width and height are required"
  ELSE ""

Reverse(a) == [i \in 1..Len(a) |-> a[Len(a) + 1 - i]]

StartReversed(a) == ShapeList(Reverse(a))

start(a) == ShapeList(a)

-----------------------------------------------------------------------------
(* Parser.parse: Lark's LALR driver with the transformer embedded.  A      *)
(* terminal callback runs when its token is read and a rule callback when  *)
(* the rule is reduced; an exception ends the call and drops the stack.    *)

NoError == [type |-> "", message |-> ""]

\* what a finished call leaves for its caller
Outcome(res, err) == [result |-> res, error |-> err, call |-> calls]

\* the outcome of the first finished call on each source
Remember(src, res, err) ==
  IF src \in DOMAIN first THEN first ELSE first @@ (src :> Outcome(res, err))

\* parse is entered with a text
ParseStart(src) ==
  /\ pstate # "parsing"
  /\ calls < MaxCalls
  /\ source' = src
  /\ ip' = 1
  /\ args' = <<>>
  /\ shapes' = <<>>
  /\ pstate' = "parsing"
  /\ result' = None
  /\ error' = NoError
  /\ calls' = calls + 1
  /\ UNCHANGED <<props, first>>

ParseCall(src) ==
  /\ ParseStart(src)
  /\ UNCHANGED <<cvars, lvars, kvars, avars, fvars>>


\* reduce "property ','": the alternative's callback, then property
ReduceProperty ==
  /\ pstate = "parsing"
  /\ PropertyAt(source, ip)
  /\ args' = Append(args, PropertyCallback(PropertyRule(source, ip),
                                           PropertyChildren(source, ip)))
  /\ ip' = ip + RuleLength(PropertyRule(source, ip)) + 1
  /\ UNCHANGED <<source, props, shapes, pstate, result, error, calls, first>>
  /\ UNCHANGED <<cvars, lvars, kvars, avars, fvars>>

\* the children of the shape rule once "shape_name ';'" is read
ShapeArgs == Append(args, shape_name(<<source[ip]>>))

\* reduce shape: the callback returns a Shape
ReduceShape ==
  /\ pstate = "parsing"
  /\ ShapeEndAt(source, ip)
  /\ ShapeError(ShapeArgs) = ""
  /\ props' = ShapeProps(ShapeArgs)
  /\ shapes' = Append(shapes, BuildShape(ShapeArgs, ShapeProps(ShapeArgs)))
  /\ args' = <<>>
  /\ ip' = ip + 2
  /\ UNCHANGED <<source, pstate, result, error, calls, first>>
  /\ UNCHANGED <<cvars, lvars, kvars, avars, fvars>>

\* RaiseValueError recovering: the Shapes built so far are returned
ReturnBuiltSoFar ==
  /\ pstate = "parsing"
  /\ ShapeEndAt(source, ip)
  /\ ShapeError(ShapeArgs) # ""
  /\ props' = (IF ShapeArgs = <<>> THEN props ELSE ShapeProps(ShapeArgs))
  /\ result' = start(shapes)
  /\ pstate' = "returned"
  /\ shapes' = <<>>
  /\ args' = <<>>
  /\ first' = Remember(source, result', NoError)
  /\ UNCHANGED <<source, ip, error, calls>>
  /\ UNCHANGED <<cvars, lvars, kvars, avars, fvars>>

\* reduce shape: the callback raises ValueError, which leaves parse
RaiseValueError ==
  /\ pstate = "parsing"
  /\ ShapeEndAt(source, ip)
  /\ ShapeError(ShapeArgs) # ""
  /\ props' = (IF ShapeArgs = <<>> THEN props ELSE ShapeProps(ShapeArgs))
  /\ error' = [type |-> "ValueError", message |-> ShapeError(ShapeArgs)]
  /\ pstate' = "raised"
  /\ shapes' = <<>>
  /\ args' = <<>>
  /\ first' = Remember(source, None, error')
  /\ UNCHANGED <<source, ip, result, calls>>
  /\ UNCHANGED <<cvars, lvars, kvars, avars, fvars>>

\* the end of the text after whole statements: reduce start and return
ReduceStart ==
  /\ pstate = "parsing"
  /\ ip = Len(source) + 1
  /\ args = <<>>
  /\ result' = start(shapes)
  /\ pstate' = "returned"
  /\ shapes' = <<>>
  /\ first' = Remember(source, result', NoError)
  /\ UNCHANGED <<source, ip, args, props, error, calls>>
  /\ UNCHANGED <<cvars, lvars, kvars, avars, fvars>>

\* no rule continues with the next token: Lark raises UnexpectedInput
RaiseUnexpectedInput ==
  /\ pstate = "parsing"
  /\ ~PropertyAt(source, ip)
  /\ ~ShapeEndAt(source, ip)
  /\ ~(ip = Len(source) + 1 /\ args = <<>>)
  /\ error' = [type |-> "UnexpectedInput", message |-> ""]
  /\ pstate' = "raised"
  /\ shapes' = <<>>
  /\ args' = <<>>
  /\ first' = Remember(source, None, error')
  /\ UNCHANGED <<source, ip, props, result, calls>>
  /\ UNCHANGED <<cvars, lvars, kvars, avars, fvars>>

-----------------------------------------------------------------------------
(* The texts given to parse *)

RECURSIVE Concat(_)
Concat(seqs) == IF seqs = <<>> THEN <<>> ELSE seqs[1] \o Concat(Tail(seqs))

SeqsUpTo(S, n) == UNION {[1..k -> S] : k \in 0..n}

\* the clauses of the language, each with the comma that follows it
LeftC(n) == <<TNumber(n), KPx, KLeft, KComma>>
TopC(n) == <<TNumber(n), KPx, KTop, KComma>>
WidthC(n) == <<KW, KColon, TNumber(n), KPx, KComma>>
HeightC(n) == <<KH, KColon, TNumber(n), KPx, KComma>>
FillC(c) == <<KFill, KColon, c, KComma>>
OutsideC(c) == <<KOutside, KColon, c, KComma>>
RoundedC == <<KRounded, KComma>>
EndC(name) == <<name, KSemi>>

\* number literals
N0 == <<"0">>
N10 == <<"1","0">>
N20 == <<"2","0">>
N50 == <<"5","0">>
N75 == <<"7","5">>
N100 == <<"1","0","0">>
N150 == <<"1","5","0">>
N200 == <<"2","0","0">>
N12p50 == <<"1","2",".","5","0">>

\* color literals
HexRed == THex(<<"#","F","F","0","0","0","0">>)
HexBlack == THex(<<"#","0","0","0","0","0","0">>)
HexGreen == THex(<<"#","0","0","F","F","0","0">>)
HexMixed == THex(<<"#","f","f","0","0","A","a">>)
NameGrey == TName(<<"G","r","e","y">>)
NameBlue == TName(<<"b","l","u","e">>)
NameChartreuse == TName(<<"c","h","a","r","t","r","e","u","s","e">>)

\* the statements of compiler.py's run_tests and of the language reference
Example1 ==
  LeftC(N100) \o TopC(N50) \o WidthC(N200) \o HeightC(N100)
  \o FillC(HexRed) \o OutsideC(HexBlack) \o RoundedC \o EndC(KRectangle)

Example2 ==
  WidthC(N100) \o HeightC(N100) \o EndC(KCircle)
  \o LeftC(N50) \o TopC(N50) \o WidthC(N150) \o HeightC(N75)
  \o FillC(HexGreen) \o EndC(KRectangle)

Example3 == HeightC(N100) \o EndC(KRectangle)

ExampleOrder ==
  WidthC(N10) \o HeightC(N10) \o EndC(KCircle)
  \o WidthC(N20) \o HeightC(N20) \o EndC(KLine)

ExampleChartreuse ==
  WidthC(N10) \o HeightC(N10) \o FillC(NameChartreuse) \o EndC(KCircle)

\* one grammar item: a clause, the end of a statement, or a fragment that
\* no rule accepts
ItemPool ==
  {LeftC(N0), LeftC(N12p50), TopC(N0), TopC(N12p50),
   WidthC(N0), WidthC(N12p50), HeightC(N0), HeightC(N12p50),
   FillC(HexMixed), FillC(NameGrey), FillC(NameChartreuse),
   OutsideC(HexMixed), OutsideC(NameBlue),
   RoundedC,
   EndC(KRectangle), EndC(KCircle), EndC(KLine),
   <<KW, KColon, TNumber(N10), KComma>>, <<KSemi>>}

ItemPrefixes == {<<>>, WidthC(N10), HeightC(N10), WidthC(N10) \o HeightC(N20)}

ItemSuffixes == {<<>>, EndC(KCircle)}

\* whole statements: four that differ in type or in a field, one without w
StmtPool ==
  {WidthC(N10) \o HeightC(N10) \o EndC(KCircle),
   WidthC(N20) \o HeightC(N20) \o EndC(KLine),
   WidthC(N20) \o HeightC(N20) \o RoundedC \o EndC(KLine),
   LeftC(N50) \o WidthC(N10) \o HeightC(N10) \o FillC(HexGreen) \o EndC(KRectangle),
   Example3}

\* color names in the letter cases a text may use
NameSamples ==
  {<<"b","l","a","c","k">>, <<"W","h","i","t","e">>, <<"R","E","D">>,
   <<"g","r","e","e","n">>, <<"B","l","u","e">>, <<"y","e","l","l","o","W">>,
   <<"c","y","a","n">>, <<"M","A","G","E","N","T","A">>, <<"g","r","a","y">>,
   <<"g","r","e","y">>, <<"c","h","a","r","t","r","e","u","s","e">>,
   <<"r","e","d","d">>, <<"r","e">>, <<"o","r","a","n","g","e">>}

OnceTexts ==
  {pre \o Concat(mid) \o post :
     pre \in ItemPrefixes, mid \in SeqsUpTo(ItemPool, MaxItems), post \in ItemSuffixes}
  \cup {Concat(ss) : ss \in SeqsUpTo(StmtPool, MaxStmts)}
  \cup {WidthC(N10) \o HeightC(N10) \o FillC(TName(n)) \o OutsideC(TName(m)) \o EndC(KCircle) :
          n \in NameSamples, m \in {<<"R","e","d">>, <<"t","e","a","l">>}}
  \cup {Example1, Example2, Example3, ExampleOrder, ExampleChartreuse}

\* the texts of a Parser instance used once
OncePrograms ==
  {toks \in OnceTexts : Lexed(toks)}

AgainTexts ==
  {<<>>, Example1, Example2, Example3, ExampleOrder, ExampleChartreuse,
   EndC(KRectangle),
   LeftC(N12p50) \o FillC(NameGrey) \o RoundedC \o WidthC(N10) \o HeightC(N20) \o EndC(KLine),
   WidthC(N10) \o HeightC(N20) \o EndC(KLine),
   LeftC(N12p50) \o FillC(NameGrey) \o RoundedC \o WidthC(N10) \o HeightC(N20) \o EndC(KLine)
     \o WidthC(N10) \o HeightC(N20) \o EndC(KLine),
   WidthC(N10) \o HeightC(N20) \o EndC(KLine) \o WidthC(N10) \o EndC(KLine),
   WidthC(N10) \o HeightC(N20) \o EndC(KLine) \o HeightC(N10) \o EndC(KLine),
   WidthC(N10) \o HeightC(N20) \o EndC(KLine) \o <<KW, KColon, TNumber(N10), KComma>>,
   WidthC(N10) \o HeightC(N20) \o <<KLine>>}

\* the texts of a Parser instance used again and again
Programs ==
  {toks \in AgainTexts : Lexed(toks)}

ParserInit ==
  /\ source = <<>>
  /\ ip = 1
  /\ args = <<>>
  /\ props = DefaultProps
  /\ shapes = <<>>
  /\ pstate = "idle"
  /\ result = None
  /\ error = NoError
  /\ calls = 0
  /\ first = <<>>

-----------------------------------------------------------------------------
(* Color objects built outside a parse *)

ColorIdle ==
  /\ hexin = <<>>
  /\ colors = <<>>
  /\ again = None
  /\ eq = None

\* number of hex digits of a color literal
HexLen == 6

\* the hex digits the constructor arguments are drawn from
HexSample == {"0", "9", "a", "F"}

\* 6 hex digits, with or without the leading '#'
HexArgs ==
  UNION {{d, <<"#">> \o d} : d \in [1..HexLen -> HexSample]}

ToggleHash(h) == IF StartsWithHash(h) THEN Tail(h) ELSE <<"#">> \o h

\* h with its last digit replaced
OtherDigit(h) == [h EXCEPT ![Len(h)] = IF h[Len(h)] = "9" THEN "0" ELSE "9"]

\* the arguments a second Color is constructed from, given the first's
Variants(h) == {h, ToggleHash(h), Upper(ToggleHash(h)), Lower(h), OtherDigit(h)}

ColorInit ==
  /\ \E h \in HexArgs : \E g \in Variants(h) : hexin = <<h, g>>
  /\ colors = <<>>
  /\ again = None
  /\ eq = None

\* Color(hexin[i]) for the next argument
Construct ==
  /\ Len(colors) < Len(hexin)
  /\ colors' = Append(colors, Color(hexin[Len(colors) + 1]))
  /\ UNCHANGED <<hexin, again, eq, pvars, lvars, kvars, avars, fvars>>

\* Color(c.hex_value) of the first Color built
Reconstruct ==
  /\ Len(colors) >= 1
  /\ again = None
  /\ again' = Color(colors[1].hex_value)
  /\ UNCHANGED <<hexin, colors, eq, pvars, lvars, kvars, avars, fvars>>

\* colors[1] == colors[2]
Compare ==
  /\ Len(colors) = 2
  /\ eq = None
  /\ eq' = Some(ColorEq(colors[1], colors[2]))
  /\ UNCHANGED <<hexin, colors, again, pvars, lvars, kvars, avars, fvars>>

-----------------------------------------------------------------------------
(* lexer.py: Lexer.  A scanner position is [pos, line, column]; the        *)
(* character None of current_char and peek_char is the empty string.       *)

NoChar == ""

\* Token(type, value, line, column)
Token(type, value, line, column) ==
  [type |-> type, value |-> value, line |-> line, column |-> column]

\* LexerError(message, line, column); the message is its kind and the text
\* it quotes
LexerError(kind, quoted, line, column) ==
  [kind |-> kind, quoted |-> quoted, line |-> line, column |-> column]

KEYWORDS ==
  (<<"p","x">> :> "PX")
  @@ (<<"l","e","f","t">> :> "LEFT")
  @@ (<<"t","o","p">> :> "TOP")
  @@ (<<"w">> :> "WIDTH")
  @@ (<<"h">> :> "HEIGHT")
  @@ (<<"f","i","l","l">> :> "FILL")
  @@ (<<"o","u","t","s","i","d","e">> :> "OUTSIDE")
  @@ (<<"r","o","u","n","d","e","d">> :> "ROUNDED")
  @@ (<<"r","e","c","t","a","n","g","l","e">> :> "RECTANGLE")
  @@ (<<"c","i","r","c","l","e">> :> "CIRCLE")
  @@ (<<"l","i","n","e">> :> "LINE")

NewScan == [pos |-> 0, line |-> 1, column |-> 1]

current_char(src, p) == IF p.pos >= Len(src) THEN NoChar ELSE src[p.pos + 1]

peek_char(src, p) == IF p.pos + 1 >= Len(src) THEN NoChar ELSE src[p.pos + 2]

\* advance without the newline case
AdvanceSameLine(src, p) ==
  IF current_char(src, p) = NoChar THEN p
  ELSE [pos |-> p.pos + 1, line |-> p.line, column |-> p.column + 1]

advance(src, p) ==
  IF current_char(src, p) = NoChar THEN p
  ELSE IF current_char(src, p) = "\n"
    THEN [pos |-> p.pos + 1, line |-> p.line + 1, column |-> 1]
    ELSE [pos |-> p.pos + 1, line |-> p.line, column |-> p.column + 1]

IsSpace(c) == c \in {" ", "\t", "\n", "\r"}

IsDigit(c) == IsIn(c, Digits)

IsAlpha(c) == IsIn(c, LowerLetters) \/ IsIn(c, UpperLetters)

IsAlnum(c) == IsAlpha(c) \/ IsDigit(c)

\* '0123456789ABCDEFabcdef'
IsHexChar(c) == c \in HexDigitChars

\* skip_whitespace that knows spaces and newlines alone
RECURSIVE SkipBlanks(_, _)
SkipBlanks(src, p) ==
  IF current_char(src, p) \in {" ", "\n"}
    THEN SkipBlanks(src, advance(src, p))
    ELSE p

RECURSIVE skip_whitespace(_, _)
skip_whitespace(src, p) ==
  IF current_char(src, p) # NoChar /\ IsSpace(current_char(src, p))
    THEN skip_whitespace(src, advance(src, p))
    ELSE p

\* the while loop of skip_comment
RECURSIVE SkipToNewline(_, _)
SkipToNewline(src, p) ==
  IF current_char(src, p) # NoChar /\ current_char(src, p) # "\n"
    THEN SkipToNewline(src, advance(src, p))
    ELSE p

skip_comment(src, p) ==
  IF current_char(src, p) = "/" /\ peek_char(src, p) = "/"
    THEN advance(src, SkipToNewline(src, p))
    ELSE p

\* a loop "while current_char() is a digit: advance()"
RECURSIVE SkipDigits(_, _)
SkipDigits(src, p) ==
  IF current_char(src, p) # NoChar /\ IsDigit(current_char(src, p))
    THEN SkipDigits(src, advance(src, p))
    ELSE p

\* the characters consumed between two positions
Consumed(src, from, to) == SubSeq(src, from.pos + 1, to.pos)

\* read_number taking a '.' whatever follows it
NumberEndAnyDot(src, p) ==
  LET q == SkipDigits(src, p)
  IN IF current_char(src, q) = "."
       THEN SkipDigits(src, advance(src, q))
       ELSE q

\* the position after read_number
NumberEnd(src, p) ==
  LET q == SkipDigits(src, p)
  IN IF current_char(src, q) = "." /\ peek_char(src, q) # NoChar /\ IsDigit(peek_char(src, q))
       THEN SkipDigits(src, advance(src, q))
       ELSE q

read_number(src, p) ==
  Token("NUMBER", Consumed(src, p, NumberEnd(src, p)), p.line, p.column)

\* the loop of read_hex_color: at most n more hex digits
RECURSIVE SkipHex(_, _, _)
SkipHex(src, p, n) ==
  IF n > 0 /\ current_char(src, p) # NoChar /\ IsHexChar(current_char(src, p))
    THEN SkipHex(src, advance(src, p), n - 1)
    ELSE p

\* the position after read_hex_color's loop
HexEnd(src, p) == SkipHex(src, advance(src, p), HexLen)

\* hex_digits after the loop
HexCount(src, p) == HexEnd(src, p).pos - p.pos - 1

HexErrorAtEnd(src, p) ==
  LexerError("Invalid hex color", Consumed(src, p, HexEnd(src, p)),
             HexEnd(src, p).line, HexEnd(src, p).column)

\* the LexerError of read_hex_color
HexError(src, p) ==
  LexerError("Invalid hex color", Consumed(src, p, HexEnd(src, p)), p.line, p.column)

\* hex_digits != 6
HexTooShort(src, p) == HexCount(src, p) # HexLen

read_hex_color(src, p) ==
  Token("HEX_COLOR", Consumed(src, p, HexEnd(src, p)), p.line, p.column)

RECURSIVE IdentifierEnd(_, _)
IdentifierEnd(src, p) ==
  IF current_char(src, p) # NoChar
     /\ (IsAlnum(current_char(src, p)) \/ current_char(src, p) = "_")
    THEN IdentifierEnd(src, advance(src, p))
    ELSE p

\* read_identifier looking the identifier up as written
ReadIdentifierAsWritten(src, p) ==
  LET identifier == Consumed(src, p, IdentifierEnd(src, p))
  IN IF identifier \in DOMAIN KEYWORDS
       THEN Token(KEYWORDS[identifier], identifier, p.line, p.column)
       ELSE Token("COLOR_NAME", identifier, p.line, p.column)

read_identifier(src, p) ==
  LET identifier == Consumed(src, p, IdentifierEnd(src, p))
  IN IF Lower(identifier) \in DOMAIN KEYWORDS
       THEN Token(KEYWORDS[Lower(identifier)], identifier, p.line, p.column)
       ELSE Token("COLOR_NAME", identifier, p.line, p.column)

PunctuationType(c) ==
  CASE c = "," -> "COMMA"
    [] c = ";" -> "SEMICOLON"
    [] c = ":" -> "COLON"

\* the position at which an iteration of tokenize's loop looks for a token
TokenStart == skip_whitespace(lsource, sc)

\* the character the iteration dispatches on
StartChar == current_char(lsource, TokenStart)

AtComment == StartChar = "/" /\ peek_char(lsource, TokenStart) = "/"

\* tokenize is called: self.tokens = []
TokenizeCall ==
  /\ lstate # "scanning"
  /\ tcalls < MaxTokenize
  /\ tokens' = <<>>
  /\ lstate' = "scanning"
  /\ lerror' = None
  /\ tcalls' = tcalls + 1
  /\ UNCHANGED <<lsource, sc, pvars, cvars, kvars, avars, fvars>>

\* an iteration that skips a comment
LexComment ==
  /\ lstate = "scanning"
  /\ StartChar # NoChar
  /\ AtComment
  /\ sc' = skip_comment(lsource, TokenStart)
  /\ UNCHANGED <<lsource, tokens, lstate, lerror, tcalls, pvars, cvars, kvars, avars, fvars>>

LexNumber ==
  /\ lstate = "scanning"
  /\ StartChar # NoChar
  /\ ~AtComment
  /\ IsDigit(StartChar)
  /\ tokens' = Append(tokens, read_number(lsource, TokenStart))
  /\ sc' = NumberEnd(lsource, TokenStart)
  /\ UNCHANGED <<lsource, lstate, lerror, tcalls, pvars, cvars, kvars, avars, fvars>>

LexHexColor ==
  /\ lstate = "scanning"
  /\ StartChar = "#"
  /\ ~HexTooShort(lsource, TokenStart)
  /\ tokens' = Append(tokens, read_hex_color(lsource, TokenStart))
  /\ sc' = HexEnd(lsource, TokenStart)
  /\ UNCHANGED <<lsource, lstate, lerror, tcalls, pvars, cvars, kvars, avars, fvars>>

\* read_hex_color raises: tokenize ends, self.tokens stays as it is
LexHexError ==
  /\ lstate = "scanning"
  /\ StartChar = "#"
  /\ HexTooShort(lsource, TokenStart)
  /\ lerror' = HexError(lsource, TokenStart)
  /\ sc' = HexEnd(lsource, TokenStart)
  /\ lstate' = "raised"
  /\ UNCHANGED <<lsource, tokens, tcalls, pvars, cvars, kvars, avars, fvars>>

LexIdentifier ==
  /\ lstate = "scanning"
  /\ StartChar # NoChar
  /\ ~AtComment
  /\ ~IsDigit(StartChar)
  /\ IsAlpha(StartChar)
  /\ tokens' = Append(tokens, read_identifier(lsource, TokenStart))
  /\ sc' = IdentifierEnd(lsource, TokenStart)
  /\ UNCHANGED <<lsource, lstate, lerror, tcalls, pvars, cvars, kvars, avars, fvars>>

\* LexPunctuation without its self.advance()
LexPunctuationNoAdvance ==
  /\ lstate = "scanning"
  /\ StartChar \in {",", ";", ":"}
  /\ tokens' = Append(tokens, Token(PunctuationType(StartChar), <<StartChar>>,
                                    TokenStart.line, TokenStart.column))
  /\ sc' = TokenStart
  /\ UNCHANGED <<lsource, lstate, lerror, tcalls, pvars, cvars, kvars, avars, fvars>>

LexPunctuation ==
  /\ lstate = "scanning"
  /\ StartChar \in {",", ";", ":"}
  /\ tokens' = Append(tokens, Token(PunctuationType(StartChar), <<StartChar>>,
                                    TokenStart.line, TokenStart.column))
  /\ sc' = advance(lsource, TokenStart)
  /\ UNCHANGED <<lsource, lstate, lerror, tcalls, pvars, cvars, kvars, avars, fvars>>

\* LexUnexpected reporting the place where the iteration began
LexUnexpectedStale ==
  /\ lstate = "scanning"
  /\ StartChar # NoChar
  /\ ~AtComment
  /\ ~IsDigit(StartChar)
  /\ StartChar # "#"
  /\ ~IsAlpha(StartChar)
  /\ StartChar \notin {",", ";", ":"}
  /\ lerror' = LexerError("Unexpected character", <<StartChar>>, sc.line, sc.column)
  /\ sc' = TokenStart
  /\ lstate' = "raised"
  /\ UNCHANGED <<lsource, tokens, tcalls, pvars, cvars, kvars, avars, fvars>>

\* no branch takes the character
LexUnexpected ==
  /\ lstate = "scanning"
  /\ StartChar # NoChar
  /\ ~AtComment
  /\ ~IsDigit(StartChar)
  /\ StartChar # "#"
  /\ ~IsAlpha(StartChar)
  /\ StartChar \notin {",", ";", ":"}
  /\ lerror' = LexerError("Unexpected character", <<StartChar>>,
                          TokenStart.line, TokenStart.column)
  /\ sc' = TokenStart
  /\ lstate' = "raised"
  /\ UNCHANGED <<lsource, tokens, tcalls, pvars, cvars, kvars, avars, fvars>>

\* LexEOF with the EOF token placed where the last iteration began
LexEOFStale ==
  /\ lstate = "scanning"
  /\ StartChar = NoChar
  /\ tokens' = Append(tokens, Token("EOF", <<>>, sc.line, sc.column))
  /\ sc' = TokenStart
  /\ lstate' = "returned"
  /\ UNCHANGED <<lsource, lerror, tcalls, pvars, cvars, kvars, avars, fvars>>

\* the loop ends: the EOF token is appended and self.tokens returned
LexEOF ==
  /\ lstate = "scanning"
  /\ StartChar = NoChar
  /\ tokens' = Append(tokens, Token("EOF", <<>>, TokenStart.line, TokenStart.column))
  /\ sc' = TokenStart
  /\ lstate' = "returned"
  /\ UNCHANGED <<lsource, lerror, tcalls, pvars, cvars, kvars, avars, fvars>>

\* get_tokens(): self.tokens, whatever the last tokenize call did
get_tokens == tokens

\* what a tokenize call leaves: the list it returns or the LexerError it
\* raises, and the scanner position it stops at
Returned(toks, p) == [state |-> "returned", tokens |-> toks, error |-> None, sc |-> p]

Raised(err, toks, p) == [state |-> "raised", tokens |-> toks, error |-> err, sc |-> p]

\* the loop of tokenize as a whole, from scanner position p with the
\* tokens toks already appended
RECURSIVE TokenizeLoop(_, _, _)
TokenizeLoop(src, p, toks) ==
  LET q == skip_whitespace(src, p)
      char == current_char(src, q)
  IN IF char = NoChar
       THEN Returned(Append(toks, Token("EOF", <<>>, q.line, q.column)), q)
     ELSE IF char = "/" /\ peek_char(src, q) = "/"
       THEN TokenizeLoop(src, skip_comment(src, q), toks)
     ELSE IF IsDigit(char)
       THEN TokenizeLoop(src, NumberEnd(src, q), Append(toks, read_number(src, q)))
     ELSE IF char = "#"
       THEN IF HexTooShort(src, q)
              THEN Raised(HexError(src, q), toks, HexEnd(src, q))
              ELSE TokenizeLoop(src, HexEnd(src, q), Append(toks, read_hex_color(src, q)))
     ELSE IF IsAlpha(char)
       THEN TokenizeLoop(src, IdentifierEnd(src, q), Append(toks, read_identifier(src, q)))
     ELSE IF char \in {",", ";", ":"}
       THEN TokenizeLoop(src, advance(src, q),
                         Append(toks, Token(PunctuationType(char), <<char>>, q.line, q.column)))
     ELSE Raised(LexerError("Unexpected character", <<char>>, q.line, q.column), toks, q)

\* Lexer.tokenize on a Lexer whose scanner stands at p
tokenize(src, p) == TokenizeLoop(src, p, <<>>)

\* tokenize_string(source_code): a new Lexer, and its tokenize
tokenize_string(src) == tokenize(src, NewScan)

\* the pieces the sources of the Lexer are put together from
ChunkPool ==
  {<<"#","1","2">>, <<"#","f","F","0","0","A","a">>,
   <<"#","1","2","3","4","5","6","7">>, <<"#","1","g">>,
   <<";">>, <<"\t","\r">>, <<"\n"," ">>,
   <<"/","/","#","1">>, <<"/">>, <<"-">>, <<".">>, <<"_">>,
   <<"1","2",".","5">>, <<".","3">>, <<"7">>, <<"p","x">>,
   <<"R","e","c","t","a","n","g","l","e">>, <<"s">>}

LexSources == {Concat(cs) : cs \in SeqsUpTo(ChunkPool, MaxChunks)}

\* the pieces of the sources that whitespace or a comment is inserted into
PiecePool ==
  {<<"7">>, <<"p","x">>, <<";">>, <<"#","f","F","0","0","A","a">>,
   <<"#","1","2">>, <<"-">>}

\* the runs of whitespace and the comments inserted
FillerPool ==
  {<<" ">>, <<"\t","\r">>, <<"\n">>, <<"/","/","c",";","\n">>, <<"/","/","c">>}

\* source src with text put in after its first n characters
Insert(src, n, text) == SubSeq(src, 1, n) \o text \o SubSeq(src, n + 1, Len(src))

\* the sources the insertions are made into
PlainSources == {Concat(ps) : ps \in SeqsUpTo(PiecePool, MaxPieces)}

InsertSources ==
  UNION {{Insert(src, n, f) : n \in 0..Len(src), f \in FillerPool} : src \in PlainSources}

\* Lexer(source_code), on a source with an insertion
LexerInitInserted ==
  /\ lsource \in InsertSources
  /\ sc = NewScan
  /\ tokens = <<>>
  /\ lstate = "ready"
  /\ lerror = None
  /\ tcalls = 0

\* Lexer(source_code)
LexerInit ==
  /\ lsource \in LexSources
  /\ sc = NewScan
  /\ tokens = <<>>
  /\ lstate = "ready"
  /\ lerror = None
  /\ tcalls = 0

LexerIdle ==
  /\ lsource = <<>>
  /\ sc = [pos |-> 0, line |-> 1, column |-> 1]
  /\ tokens = <<>>
  /\ lstate = "ready"
  /\ lerror = None
  /\ tcalls = 0

-----------------------------------------------------------------------------
(* Specifications *)

-----------------------------------------------------------------------------
(* compiler.py: SimpleUICompiler.compile_string.  The source is given as   *)
(* its words; its text, which the Lexer scans, is the words with a space    *)
(* between them.                                                            *)

RECURSIVE TextOf(_)
TextOf(toks) ==
  IF toks = <<>> THEN <<>>
  ELSE IF Len(toks) = 1 THEN toks[1].value
  ELSE toks[1].value \o <<" ">> \o TextOf(Tail(toks))

\* a word that is no terminal of the grammar
Unmatched(text) == Tok("$NONE", text)

\* CodeGenerator.generate(ast): the program that draws the Shapes of ast,
\* one after the other, in list order
generate(ast) == [draws |-> ast.shapes]

\* SimpleUICompiler(verbose = v), before any compile_string
CompilerInit(v) ==
  /\ csource = <<>>
  /\ verbose = v
  /\ cstate = "idle"
  /\ clabel = ""
  /\ cexc = ""
  /\ ccode = None

CompilerIdle == CompilerInit(FALSE)

\* stage 1, run only by a verbose compiler: Lexer(source_code).tokenize()
LexerStage(src) == tokenize_string(TextOf(src))

\* self.lexer after stage 1
LexerLeft(src) ==
  /\ lsource' = TextOf(src)
  /\ sc' = LexerStage(src).sc
  /\ tokens' = LexerStage(src).tokens
  /\ lstate' = LexerStage(src).state
  /\ lerror' = LexerStage(src).error
  /\ tcalls' = 1

\* compile_string of a verbose compiler: stage 1 raises LexerError, which
\* is raised again as CompilerError("Lexical error: ...")
CompileLexicalError(src) ==
  /\ cstate # "parsing"
  /\ verbose
  /\ LexerStage(src).state = "raised"
  /\ LexerLeft(src)
  /\ csource' = src
  /\ cstate' = "raised"
  /\ clabel' = "Lexical error"
  /\ cexc' = "CompilerError"
  /\ ccode' = None
  /\ UNCHANGED <<verbose, pvars, cvars>>

\* compile_string reaches stage 2: self.parser.parse(source_code)
CompileParse(src) ==
  /\ cstate # "parsing"
  /\ ~(verbose /\ LexerStage(src).state = "raised")
  /\ IF verbose THEN LexerLeft(src) ELSE UNCHANGED lvars
  /\ ParseStart(src)
  /\ csource' = src
  /\ cstate' = "parsing"
  /\ clabel' = ""
  /\ cexc' = ""
  /\ ccode' = None
  /\ UNCHANGED <<verbose, cvars>>

\* parse returned: stage 3 generates the code, which is returned
CompileReturn ==
  /\ cstate = "parsing"
  /\ pstate = "returned"
  /\ cstate' = "returned"
  /\ ccode' = Some(generate(result))
  /\ UNCHANGED <<csource, verbose, clabel, cexc, pvars, cvars, lvars, avars, fvars>>

\* CompileSemanticError without its except clause: the ValueError leaves
ValueErrorEscapes ==
  /\ cstate = "parsing"
  /\ pstate = "raised"
  /\ error.type = "ValueError"
  /\ cstate' = "raised"
  /\ clabel' = ""
  /\ cexc' = "ValueError"
  /\ UNCHANGED <<csource, verbose, ccode, pvars, cvars, lvars, avars, fvars>>

\* parse raised ValueError: CompilerError("Semantic error: ...")
CompileSemanticError ==
  /\ cstate = "parsing"
  /\ pstate = "raised"
  /\ error.type = "ValueError"
  /\ cstate' = "raised"
  /\ clabel' = "Semantic error"
  /\ cexc' = "CompilerError"
  /\ UNCHANGED <<csource, verbose, ccode, pvars, cvars, lvars, avars, fvars>>

\* parse raised another exception: CompilerError("Compilation error: ...")
CompileOtherError ==
  /\ cstate = "parsing"
  /\ pstate = "raised"
  /\ error.type # "ValueError"
  /\ cstate' = "raised"
  /\ clabel' = "Compilation error"
  /\ cexc' = "CompilerError"
  /\ UNCHANGED <<csource, verbose, ccode, pvars, cvars, lvars, avars, fvars>>

-----------------------------------------------------------------------------
(* The shells before they are used *)

\* the status label: its text, its kind and the number the text reports
Status(text, kind, n) == [text |-> text, kind |-> kind, shapes |-> n]

\* the editor's content: the words of a source after some whitespace
Editor(lead, words) == [lead |-> lead, words |-> words]

\* SimpleUIApp(), after load_example
AppIdle ==
  /\ editor = Editor(<<>>, <<>>)
  /\ astate = "idle"
  /\ canvas = <<>>
  /\ status = Status("Example loaded", "info", 0)
  /\ dialogs = 0
  /\ trace = <<>>

\* before any compile_file
FileIdle ==
  /\ finput = None
  /\ run = FALSE
  /\ fstate = "idle"
  /\ ferror = ""
  /\ output = None
  /\ executed = <<>>

\* sources with one fault of one kind, and sources without a fault
SizedLine == WidthC(N10) \o HeightC(N20) \o EndC(KLine)

LexicalFaults ==
  {<<Unmatched(<<"-">>)>>,
   SizedLine \o <<Unmatched(<<"-">>)>>,
   WidthC(N10) \o HeightC(N20) \o FillC(THex(<<"#","1","2">>)) \o EndC(KLine),
   WidthC(N10) \o HeightC(N20) \o <<Unmatched(<<"_">>), KComma>> \o EndC(KLine)}

SyntaxFaults ==
  {WidthC(N10) \o HeightC(N20) \o <<KLine>>,
   <<KSemi>>,
   SizedLine \o <<KW, KColon, TNumber(N10), KComma>>,
   WidthC(N10) \o HeightC(N20) \o <<KSemi>>}

SemanticFaults ==
  {Example3, EndC(KRectangle), SizedLine \o WidthC(N10) \o EndC(KLine)}

Faultless == {<<>>, SizedLine, WidthC(N10) \o HeightC(N20) \o FillC(NameGrey) \o EndC(KCircle)}

CompileSources == LexicalFaults \cup SyntaxFaults \cup SemanticFaults \cup Faultless

\* a compiler created verbose or not; its compile_string is called on a
\* source, and again as long as no call has reached the Parser
InitCompile ==
  /\ ParserInit /\ ColorIdle /\ LexerIdle /\ AppIdle /\ FileIdle
  /\ \E v \in BOOLEAN : CompilerInit(v)

CompileString ==
  /\ cstate # "parsing"
  /\ calls = 0
  /\ \E src \in CompileSources : CompileLexicalError(src) \/ CompileParse(src)
  /\ UNCHANGED <<avars, fvars>>

NextCompile ==
  \/ CompileString
  \/ ReduceProperty
  \/ ReduceShape
  \/ RaiseValueError
  \/ ReduceStart
  \/ RaiseUnexpectedInput
  \/ CompileReturn
  \/ CompileSemanticError
  \/ CompileOtherError

vars == <<pvars, cvars, lvars, kvars, avars, fvars>>

SpecCompile == InitCompile /\ [][NextCompile]_vars

-----------------------------------------------------------------------------
(* interactive_app.py: SimpleUIApp.compile_and_render.  The canvas is the  *)
(* list of the Shapes drawn on it since it was last cleared, later ones on *)
(* top; trace lists the calls one run of compile_and_render makes.         *)

\* str.strip(): the text without its leading and trailing whitespace
RECURSIVE LStrip(_)
LStrip(text) ==
  IF text # <<>> /\ IsSpace(text[1]) THEN LStrip(Tail(text)) ELSE text

strip(text) == Reverse(LStrip(Reverse(LStrip(text))))

\* self.text_editor.get(1.0, tk.END): the content and the newline Tk adds
EditorText(e) == e.lead \o TextOf(e.words) \o <<"\n">>

Call(name, arg) == [call |-> name, arg |-> arg]

\* the editor's content is empty or whitespace: nothing is compiled
AppReject(e) ==
  /\ astate \notin {"parsing", "drawing"}
  /\ strip(EditorText(e)) = <<>>
  /\ editor' = e
  /\ status' = Status("No code to compile", "error", 0)
  /\ trace' = <<Call("update_status", "No code to compile")>>
  /\ astate' = "rejected"
  /\ UNCHANGED <<canvas, dialogs, pvars>>

\* AppParse clearing the canvas before it parses
AppParseOnClearedCanvas(e) ==
  /\ astate \notin {"parsing", "drawing"}
  /\ strip(EditorText(e)) # <<>>
  /\ editor' = e
  /\ status' = Status("Compiling...", "info", 0)
  /\ ParseStart(e.words)
  /\ trace' = <<Call("update_status", "Compiling..."), Call("parse", e.words)>>
  /\ astate' = "parsing"
  /\ canvas' = <<>>
  /\ UNCHANGED <<dialogs>>

\* the status shows "Compiling..." and self.parser.parse is entered
AppParse(e) ==
  /\ astate \notin {"parsing", "drawing"}
  /\ strip(EditorText(e)) # <<>>
  /\ editor' = e
  /\ status' = Status("Compiling...", "info", 0)
  /\ ParseStart(e.words)
  /\ trace' = <<Call("update_status", "Compiling..."), Call("parse", e.words)>>
  /\ astate' = "parsing"
  /\ UNCHANGED <<canvas, dialogs>>

\* parse raised: the status and a dialog show the error
AppFail ==
  /\ astate = "parsing"
  /\ pstate = "raised"
  /\ status' = Status("Error", "error", 0)
  /\ dialogs' = dialogs + 1
  /\ trace' = trace \o <<Call("update_status", "Error"), Call("showerror", error.type)>>
  /\ astate' = "failed"
  /\ UNCHANGED <<editor, canvas, pvars, cvars, lvars, kvars, fvars>>

\* parse returned: self.clear_canvas()
AppClear ==
  /\ astate = "parsing"
  /\ pstate = "returned"
  /\ canvas' = <<>>
  /\ status' = Status("Canvas cleared", "info", 0)
  /\ trace' = Append(trace, Call("clear_canvas", <<>>))
  /\ astate' = "drawing"
  /\ UNCHANGED <<editor, dialogs, pvars, cvars, lvars, kvars, fvars>>

\* AppDraw taking the Shapes from the end of the list
AppDrawLastFirst ==
  /\ astate = "drawing"
  /\ Len(canvas) < Len(result.shapes)
  /\ canvas' = Append(canvas, result.shapes[Len(result.shapes) - Len(canvas)])
  /\ trace' = Append(trace, Call("draw_shape", result.shapes[Len(result.shapes) - Len(canvas)]))
  /\ UNCHANGED <<editor, astate, status, dialogs, pvars, cvars, lvars, kvars, fvars>>

\* one turn of "for shape in ast.shapes: self.draw_shape(shape)"
AppDraw ==
  /\ astate = "drawing"
  /\ Len(canvas) < Len(result.shapes)
  /\ canvas' = Append(canvas, result.shapes[Len(canvas) + 1])
  /\ trace' = Append(trace, Call("draw_shape", result.shapes[Len(canvas) + 1]))
  /\ UNCHANGED <<editor, astate, status, dialogs, pvars, cvars, lvars, kvars, fvars>>

\* the loop is over: the screen is updated and the status reports success
AppFinish ==
  /\ astate = "drawing"
  /\ Len(canvas) = Len(result.shapes)
  /\ status' = Status("Compiled successfully", "success", Len(result.shapes))
  /\ trace' = trace \o <<Call("screen.update", <<>>),
                          Call("update_status", "Compiled successfully")>>
  /\ astate' = "rendered"
  /\ UNCHANGED <<editor, canvas, dialogs, pvars, cvars, lvars, kvars, fvars>>

\* what the user leaves in the editor before pressing Compile
AppWords ==
  {SizedLine, ExampleOrder, Example3,
   SizedLine \o <<KW, KColon, TNumber(N10), KComma>>,
   SizedLine \o WidthC(N10) \o EndC(KLine)}

Editors ==
  {Editor(<<>>, words) : words \in AppWords}
  \cup {Editor(<<>>, <<>>), Editor(<<" ", "\n", "\t">>, <<>>), Editor(<<"\n", " ">>, SizedLine)}

\* the Compile button, pressed whenever no run is under way
compile_and_render ==
  /\ \E e \in Editors : AppReject(e) \/ AppParse(e)
  /\ UNCHANGED <<cvars, lvars, kvars, fvars>>

InitApp == ParserInit /\ ColorIdle /\ LexerIdle /\ CompilerIdle /\ AppIdle /\ FileIdle

NextApp ==
  \/ compile_and_render
  \/ ReduceProperty
  \/ ReduceShape
  \/ RaiseValueError
  \/ ReduceStart
  \/ RaiseUnexpectedInput
  \/ AppFail
  \/ AppClear
  \/ AppDraw
  \/ AppFinish

SpecApp == InitApp /\ [][NextApp]_vars

-----------------------------------------------------------------------------
(* compiler.py: SimpleUICompiler.compile_file.  The input file is there,   *)
(* holding a source, or it is not; the output file holds a program or does *)
(* not exist.                                                              *)

InputFile(exists, src) == [exists |-> exists, source |-> src]

\* a program an earlier compilation left in the output file
OldProgram == generate(ShapeList(<<>>))

\* os.path.exists(input_file) is false: CompilerError
FileMissing(f) ==
  /\ fstate = "idle"
  /\ ~f.exists
  /\ finput' = Some(f)
  /\ fstate' = "raised"
  /\ ferror' = "Input file not found"
  /\ UNCHANGED <<run, output, executed, pvars, cvars, lvars, kvars>>

\* FileCompile opening the output file for writing before it compiles
FileCompileOpensOutput(f, r) ==
  /\ fstate = "idle"
  /\ f.exists
  /\ finput' = Some(f)
  /\ run' = r
  /\ CompileLexicalError(f.source) \/ CompileParse(f.source)
  /\ fstate' = "compiling"
  /\ output' = Some(generate(ShapeList(<<>>)))
  /\ UNCHANGED <<ferror, executed>>

\* the input file is read and compile_string called on its content
FileCompile(f, r) ==
  /\ fstate = "idle"
  /\ f.exists
  /\ finput' = Some(f)
  /\ run' = r
  /\ CompileLexicalError(f.source) \/ CompileParse(f.source)
  /\ fstate' = "compiling"
  /\ UNCHANGED <<ferror, output, executed>>

\* compile_string raised CompilerError, which compile_file raises again
FileFail ==
  /\ fstate = "compiling"
  /\ cstate = "raised"
  /\ fstate' = "raised"
  /\ ferror' = clabel
  /\ UNCHANGED <<finput, run, output, executed, pvars, cvars, lvars, kvars, avars>>

\* compile_string returned: the generated code is written to the output file
FileWrite ==
  /\ fstate = "compiling"
  /\ cstate = "returned"
  /\ output' = ccode
  /\ fstate' = (IF run THEN "written" ELSE "returned")
  /\ UNCHANGED <<finput, run, ferror, executed, pvars, cvars, lvars, kvars, avars>>

\* run is set: subprocess.run([sys.executable, output_file])
FileRun ==
  /\ fstate = "written"
  /\ executed' = Append(executed, output[1])
  /\ fstate' = "returned"
  /\ UNCHANGED <<finput, run, ferror, output, pvars, cvars, lvars, kvars, avars>>

InputFiles ==
  {InputFile(TRUE, src) : src \in CompileSources} \cup {InputFile(FALSE, <<>>)}

compile_file ==
  /\ \E f \in InputFiles, r \in BOOLEAN : FileMissing(f) \/ FileCompile(f, r)
  /\ UNCHANGED avars

\* a compiler, verbose or not, and an output file that exists or not
InitFile ==
  /\ ParserInit /\ ColorIdle /\ LexerIdle /\ AppIdle
  /\ \E v \in BOOLEAN : CompilerInit(v)
  /\ finput = None
  /\ run = FALSE
  /\ fstate = "idle"
  /\ ferror = ""
  /\ output \in {None, Some(OldProgram)}
  /\ executed = <<>>

NextFile ==
  \/ compile_file
  \/ ReduceProperty
  \/ ReduceShape
  \/ RaiseValueError
  \/ ReduceStart
  \/ RaiseUnexpectedInput
  \/ CompileReturn
  \/ CompileSemanticError
  \/ CompileOtherError
  \/ FileFail
  \/ FileWrite
  \/ FileRun

SpecFile == InitFile /\ [][NextFile]_vars

Init == ParserInit /\ ColorIdle /\ LexerIdle /\ CompilerIdle /\ AppIdle /\ FileIdle

\* a Parser instance whose parse is called again and again
ParseAgain ==
  /\ pstate # "parsing"
  /\ calls < MaxCalls
  /\ \E src \in Programs : ParseCall(src)

Next ==
  \/ ParseAgain
  \/ ReduceProperty
  \/ ReduceShape
  \/ RaiseValueError
  \/ ReduceStart
  \/ RaiseUnexpectedInput

Spec == Init /\ [][Next]_vars

\* a Parser instance whose parse is called once, on any text
ParseOnce ==
  /\ calls = 0
  /\ \E src \in OncePrograms : ParseCall(src)

NextOnce ==
  \/ ParseOnce
  \/ ReduceProperty
  \/ ReduceShape
  \/ RaiseValueError
  \/ ReduceStart
  \/ RaiseUnexpectedInput

SpecOnce == Init /\ [][NextOnce]_vars

\* Color objects constructed from hex strings
InitColor == ParserInit /\ ColorInit /\ LexerIdle /\ CompilerIdle /\ AppIdle /\ FileIdle

NextColor ==
  \/ Construct
  \/ Reconstruct
  \/ Compare

SpecColor == InitColor /\ [][NextColor]_vars

\* a Lexer constructed on a source, its tokenize called again and again
InitLexer == ParserInit /\ ColorIdle /\ LexerInit /\ CompilerIdle /\ AppIdle /\ FileIdle

NextLexer ==
  \/ TokenizeCall
  \/ LexComment
  \/ LexNumber
  \/ LexHexColor
  \/ LexHexError
  \/ LexIdentifier
  \/ LexPunctuation
  \/ LexUnexpected
  \/ LexEOF

SpecLexer == InitLexer /\ [][NextLexer]_vars

\* a Lexer constructed on a source that whitespace or a comment was put into
InitInserted == ParserInit /\ ColorIdle /\ LexerInitInserted /\ CompilerIdle /\ AppIdle /\ FileIdle

SpecInserted == InitInserted /\ [][NextLexer]_vars

-----------------------------------------------------------------------------
(* The text as the language reference reads it, statement by statement,    *)
(* for stating what parse must return.                                     *)

SemiIdx(toks) == {i \in 1..Len(toks) : toks[i].type = "SEMICOLON"}

\* index of the k-th ';' of toks
NthSemi(toks, k) ==
  CHOOSE i \in SemiIdx(toks) : Cardinality({j \in SemiIdx(toks) : j <= i}) = k

\* the k-th statement of toks, its ';' included
StmtOf(toks, k) ==
  SubSeq(toks, IF k = 1 THEN 1 ELSE NthSemi(toks, k - 1) + 1, NthSemi(toks, k))

\* where the clauses of rule start in statement st
ClausesOf(st, rule) ==
  {j \in 1..Len(st) : (j = 1 \/ st[j - 1].type = "COMMA") /\ PropertyRule(st, j) = rule}

Has(st, rule) == ClausesOf(st, rule) # {}

MaxOf(S) == CHOOSE i \in S : \A j \in S : j <= i

\* the value token of the last clause of rule in st
LastValue(st, rule) == st[MaxOf(ClausesOf(st, rule)) + RuleValueOffset(rule)]

\* the number a NUMBER token denotes and the color a HEX or NAME token denotes
Denotes(tok) == Terminal(tok)

BlackColor == [hex_value |-> Black]

\* the Shape the language reference gives statement st
ExpectedShape(st) ==
  [shape_type |-> st[Len(st) - 1].value,
   position |-> [x |-> IF Has(st, "left_pos") THEN Denotes(LastValue(st, "left_pos")) ELSE Zero,
                 y |-> IF Has(st, "top_pos") THEN Denotes(LastValue(st, "top_pos")) ELSE Zero],
   size |-> [width |-> Denotes(LastValue(st, "width")),
             height |-> Denotes(LastValue(st, "height"))],
   fill_color |-> IF Has(st, "fill") THEN Denotes(LastValue(st, "fill")) ELSE BlackColor,
   outside_color |-> IF Has(st, "outside") THEN Denotes(LastValue(st, "outside")) ELSE BlackColor,
   rounded |-> Has(st, "rounded")]

\* the Shapes built so far by the running call, or returned by the finished one
Built == IF pstate = "returned" THEN result.shapes ELSE shapes

\* the statement whose shape_name the parser is at
CurrentStmt ==
  SubSeq(source,
         IF \E j \in SemiIdx(source) : j < ip
           THEN MaxOf({j \in SemiIdx(source) : j < ip}) + 1 ELSE 1,
         ip + 1)

LacksSize(st) == ~Has(st, "width") \/ ~Has(st, "height")

Once(st, rule) == Cardinality(ClausesOf(st, rule)) = 1

Repeated(st, rule) == Cardinality(ClausesOf(st, rule)) > 1

-----------------------------------------------------------------------------
(* Claims *)

Num(n) == [whole |-> n, frac |-> <<>>]

\* C1: every grammar-valid statement that supplies w and h yields a Shape
\* whose fields are the values of its clauses (left -> position.x, top ->
\* position.y, w -> size.width, h -> size.height, fill -> fill_color,
\* outside -> outside_color, rounded -> rounded = true, the shape-name ->
\* shape_type), parse raising ValueError only at a statement without w or
\* h; the reference statement yields exactly one Shape: rectangle,
\* (100,50), (200,100), #FF0000, #000000, rounded.
C1_ClausesSetFields ==
  /\ \A k \in 1..Len(Built) :
       LET st == StmtOf(source, k)
           s == Built[k]
       IN /\ s.shape_type = st[Len(st) - 1].value
          /\ Once(st, "left_pos") => s.position.x = Denotes(LastValue(st, "left_pos"))
          /\ Once(st, "top_pos") => s.position.y = Denotes(LastValue(st, "top_pos"))
          /\ Once(st, "width") => s.size.width = Denotes(LastValue(st, "width"))
          /\ Once(st, "height") => s.size.height = Denotes(LastValue(st, "height"))
          /\ Once(st, "fill") => s.fill_color = Denotes(LastValue(st, "fill"))
          /\ Once(st, "outside") => s.outside_color = Denotes(LastValue(st, "outside"))
          /\ Has(st, "rounded") => s.rounded = TRUE
  /\ (pstate = "raised" /\ error.type = "ValueError") => LacksSize(CurrentStmt)
  /\ (pstate = "returned" /\ source = Example1) =>
       result = [shapes |-> <<
         [shape_type |-> <<"r","e","c","t","a","n","g","l","e">>,
          position |-> [x |-> Num(100), y |-> Num(50)],
          size |-> [width |-> Num(200), height |-> Num(100)],
          fill_color |-> [hex_value |-> <<"#","F","F","0","0","0","0">>],
          outside_color |-> [hex_value |-> <<"#","0","0","0","0","0","0">>],
          rounded |-> TRUE] >>]

C1_Witness ==
  /\ pstate = "returned"
  /\ source = Example1
  /\ Len(result.shapes) = 1

\* C2: at the end of a grammar-valid statement that has no w clause or no h
\* clause, parse raises ValueError 'Width and height are required' and
\* returns nothing; no Shape ever carries a null width or height, nor comes
\* from a statement without w or h.
C2_MissingSizeRaises ==
  /\ [](\A k \in 1..Len(Built) :
          /\ Built[k].size.width # None
          /\ Built[k].size.height # None
          /\ ~LacksSize(StmtOf(source, k)))
  /\ [][(pstate = "parsing" /\ ShapeEndAt(source, ip) /\ LacksSize(CurrentStmt))
          => /\ pstate' = "raised"
             /\ error' = [type |-> "ValueError", message |-> "Width and height are required"]
             /\ result' = None]_vars

C2_Witness ==
  /\ pstate = "raised"
  /\ source = EndC(KRectangle)
  /\ error.message = "Width and height are required"

\* C3: every property whose clause is absent takes its default: left 0,
\* top 0, fill #000000, outside #000000, rounded false; a statement of only
\* w, h and a shape-name yields position (0,0), both colors black, not
\* rounded.
C3_AbsentTakesDefault ==
  \A k \in 1..Len(Built) :
    LET st == StmtOf(source, k)
        s == Built[k]
    IN /\ ~Has(st, "left_pos") => s.position.x = Zero
       /\ ~Has(st, "top_pos") => s.position.y = Zero
       /\ ~Has(st, "fill") => s.fill_color = BlackColor
       /\ ~Has(st, "outside") => s.outside_color = BlackColor
       /\ ~Has(st, "rounded") => s.rounded = FALSE

C3_Witness ==
  /\ pstate = "returned"
  /\ source = WidthC(N10) \o HeightC(N20) \o EndC(KCircle)
  /\ result.shapes[1].position = [x |-> Zero, y |-> Zero]
  /\ result.shapes[1].fill_color = BlackColor
  /\ result.shapes[1].outside_color = BlackColor
  /\ result.shapes[1].rounded = FALSE

\* C4: a property clause that occurs more than once in a statement gives
\* the Shape the value of its last occurrence in source order, for left,
\* top, w, h, fill and outside.
C4_LastWins ==
  \A k \in 1..Len(Built) :
    LET st == StmtOf(source, k)
        s == Built[k]
    IN /\ Repeated(st, "left_pos") => s.position.x = Denotes(LastValue(st, "left_pos"))
       /\ Repeated(st, "top_pos") => s.position.y = Denotes(LastValue(st, "top_pos"))
       /\ Repeated(st, "width") => s.size.width = Denotes(LastValue(st, "width"))
       /\ Repeated(st, "height") => s.size.height = Denotes(LastValue(st, "height"))
       /\ Repeated(st, "fill") => s.fill_color = Denotes(LastValue(st, "fill"))
       /\ Repeated(st, "outside") => s.outside_color = Denotes(LastValue(st, "outside"))

C4_Witness ==
  /\ pstate = "returned"
  /\ source = WidthC(N10) \o HeightC(N20) \o FillC(NameGrey) \o FillC(HexMixed) \o EndC(KCircle)
  /\ result.shapes[1].fill_color.hex_value = <<"#","F","F","0","0","A","A">>

\* C5: a valid program of N statements yields a ShapeList of exactly N
\* Shapes, the i-th built from the i-th statement of the text.
C5_OneShapePerStatementInOrder ==
  pstate = "returned" =>
    /\ Len(result.shapes) = Cardinality(SemiIdx(source))
    /\ \A i \in 1..Len(result.shapes) :
         result.shapes[i] = ExpectedShape(StmtOf(source, i))

C5_Witness ==
  /\ pstate = "returned"
  /\ Len(result.shapes) = 3
  /\ result.shapes[1].shape_type = KLine.value
  /\ result.shapes[2].shape_type = KCircle.value
  /\ result.shapes[3] = result.shapes[1]

C5_WitnessEmpty ==
  /\ pstate = "returned"
  /\ source = <<>>
  /\ result.shapes = <<>>

\* C6: on one Parser instance, every later parse call on a source that
\* parsed to a ShapeList returns a ShapeList identical in shape count, order
\* and field values, whatever was parsed on the instance in between.
C6_SameSourceSameShapeList ==
  (pstate \in {"returned", "raised"} /\ source \in DOMAIN first /\ first[source].error = NoError)
    => /\ pstate = "returned"
       /\ result = first[source].result

C6_Witness ==
  /\ pstate = "returned"
  /\ calls = 3
  /\ Len(result.shapes) = 2
  /\ first[source].call = 1
  /\ \E t \in DOMAIN first : first[t].call = 2 /\ first[t].error.type = "ValueError"

\* the digits of a constructor argument, and a hex digit in upper case, as
\* the data model writes the canonical form
C7_Digits(h) == IF h[1] = "#" THEN SubSeq(h, 2, Len(h)) ELSE h

C7_Up(c) ==
  CASE c = "a" -> "A" [] c = "b" -> "B" [] c = "c" -> "C"
    [] c = "d" -> "D" [] c = "e" -> "E" [] c = "f" -> "F"
    [] OTHER -> c

C7_Canonical(h) == <<"#">> \o [i \in 1..HexLen |-> C7_Up(C7_Digits(h)[i])]

\* C7: for 6 hex digits d in any letter case, Color(d) and Color('#'+d) hold
\* '#' followed by d in upper case; building a Color from a canonical
\* hex_value changes nothing; two Colors are equal exactly when their
\* canonical hex_values are.
C7_ColorCanonical ==
  /\ \A i \in 1..Len(colors) : colors[i].hex_value = C7_Canonical(hexin[i])
  /\ again # None => again = colors[1]
  /\ eq # None => (eq[1] <=> C7_Canonical(hexin[1]) = C7_Canonical(hexin[2]))

C7_Witness ==
  /\ hexin = << <<"a","F","0","9","a","a">>, <<"#","A","F","0","9","A","A">> >>
  /\ Len(colors) = 2
  /\ colors[1].hex_value = <<"#","A","F","0","9","A","A">>
  /\ again = colors[1]
  /\ eq = Some(TRUE)

C7_WitnessUnequal ==
  /\ Len(colors) = 2
  /\ eq = Some(FALSE)

\* ^#[0-9A-F]{6}$
C8_Matches(h) ==
  /\ Len(h) = 7
  /\ h[1] = "#"
  /\ \A i \in 2..7 : h[i] \in {"0","1","2","3","4","5","6","7","8","9","A","B","C","D","E","F"}

\* C8: in every ShapeList parse returns (and in every Shape built on the
\* way) fill_color and outside_color hold a hex_value of 7 characters
\* matching ^#[0-9A-F]{6}$, from a hex literal in any case, a color name,
\* known or not, or the default.
C8_ColorsCanonical ==
  \A k \in 1..Len(Built) :
    /\ C8_Matches(Built[k].fill_color.hex_value)
    /\ C8_Matches(Built[k].outside_color.hex_value)

C8_Witness ==
  /\ pstate = "returned"
  /\ source = WidthC(N10) \o HeightC(N20) \o FillC(HexMixed) \o OutsideC(NameBlue) \o EndC(KCircle)
  /\ result.shapes[1].fill_color.hex_value = <<"#","F","F","0","0","A","A">>
  /\ result.shapes[1].outside_color.hex_value = <<"#","0","0","0","0","F","F">>

\* the fixed table of color names
C9_Table ==
  (<<"b","l","a","c","k">> :> <<"#","0","0","0","0","0","0">>)
  @@ (<<"w","h","i","t","e">> :> <<"#","F","F","F","F","F","F">>)
  @@ (<<"r","e","d">> :> <<"#","F","F","0","0","0","0">>)
  @@ (<<"g","r","e","e","n">> :> <<"#","0","0","F","F","0","0">>)
  @@ (<<"b","l","u","e">> :> <<"#","0","0","0","0","F","F">>)
  @@ (<<"y","e","l","l","o","w">> :> <<"#","F","F","F","F","0","0">>)
  @@ (<<"c","y","a","n">> :> <<"#","0","0","F","F","F","F">>)
  @@ (<<"m","a","g","e","n","t","a">> :> <<"#","F","F","0","0","F","F">>)
  @@ (<<"g","r","a","y">> :> <<"#","8","0","8","0","8","0">>)
  @@ (<<"g","r","e","y">> :> <<"#","8","0","8","0","8","0">>)

C9_Resolves(tok) ==
  IF \E n \in DOMAIN C9_Table : n = Lower(tok.value)
    THEN C9_Table[Lower(tok.value)]
    ELSE <<"#","0","0","0","0","0","0">>

\* a statement of w, h, fill:name, outside:name and a shape-name
C9_NamedOnly(toks) ==
  \E n \in NameSamples, m \in NameSamples \cup {<<"R","e","d">>, <<"t","e","a","l">>} :
    toks = WidthC(N10) \o HeightC(N10) \o FillC(TName(n)) \o OutsideC(TName(m)) \o EndC(KCircle)

\* C9: a color name resolves through the fixed table, compared without
\* regard to letter case, and a name that is not in the table resolves to
\* #000000; no name makes parse raise.
C9_NamesResolve ==
  /\ \A k \in 1..Len(Built) :
       LET st == StmtOf(source, k)
           s == Built[k]
       IN /\ (Has(st, "fill") /\ LastValue(st, "fill").type = "NAME")
               => s.fill_color.hex_value = C9_Resolves(LastValue(st, "fill"))
          /\ (Has(st, "outside") /\ LastValue(st, "outside").type = "NAME")
               => s.outside_color.hex_value = C9_Resolves(LastValue(st, "outside"))
  /\ (C9_NamedOnly(source) \/ source = ExampleChartreuse) => pstate # "raised"

C9_Witness ==
  /\ pstate = "returned"
  /\ source = ExampleChartreuse
  /\ result.shapes[1].fill_color.hex_value = <<"#","0","0","0","0","0","0">>

C9_WitnessKnown ==
  /\ pstate = "returned"
  /\ source = WidthC(N10) \o HeightC(N10) \o FillC(TName(<<"M","A","G","E","N","T","A">>))
                \o OutsideC(TName(<<"R","e","d">>)) \o EndC(KCircle)
  /\ result.shapes[1].fill_color.hex_value = <<"#","F","F","0","0","F","F">>
  /\ result.shapes[1].outside_color.hex_value = <<"#","F","F","0","0","0","0">>

-----------------------------------------------------------------------------
\* the hex characters that follow index i of a source, up to the first
\* character that is not one
RECURSIVE HexRun(_, _)
HexRun(src, i) ==
  IF i < Len(src) /\ src[i + 1] \in HexDigitChars THEN 1 + HexRun(src, i + 1) ELSE 0

\* the line of index i of a source: one more than the newlines before it
LineOf(src, i) == 1 + Cardinality({j \in 1..(i - 1) : src[j] = "\n"})

\* the column of index i of a source: its distance from the last newline
\* before it, or from the start of the source
ColumnOf(src, i) ==
  LET newlines == {j \in 1..(i - 1) : src[j] = "\n"}
  IN IF newlines = {} THEN i
     ELSE i - (CHOOSE j \in newlines : \A k \in newlines : k <= j)

\* the index of the character tokenize looks at next
AtIndex == TokenStart.pos + 1

\* tokenize stands at a '#' that fewer than 6 hex characters follow
AtShortHex ==
  /\ lstate = "scanning"
  /\ StartChar = "#"
  /\ HexRun(lsource, AtIndex) < 6

C10_NoShortToken ==
  \A i \in 1..Len(tokens) : tokens[i].type = "HEX_COLOR" => Len(tokens[i].value) = 7

C10_RaisedAtHash ==
  /\ lstate' = "raised"
  /\ lerror'.kind = "Invalid hex color"
  /\ lerror'.line = LineOf(lsource, AtIndex)
  /\ lerror'.column = ColumnOf(lsource, AtIndex)
  /\ tokens' = tokens

\* C10: when tokenize reaches a '#' that fewer than 6 hex characters follow
\* before a character that is not one or the end of the input, it raises a
\* LexerError whose line and column are those of the '#', and appends no
\* token; no HEX_COLOR token ever has a value shorter than '#' and 6 digits
C10_ShortHexRaisesAtHash ==
  /\ [](C10_NoShortToken)
  /\ [][AtShortHex => C10_RaisedAtHash]_vars

\* a short hex color on the second line, second column, has raised; the
\* character that ended it stands two columns further
C10_Witness ==
  /\ lsource = <<"\n", " ", "#", "1", "g">>
  /\ lstate = "raised"
  /\ lerror = LexerError("Invalid hex color", <<"#", "1">>, 2, 2)
  /\ sc.column = 4

\* '#12;' has raised at line 1, column 1
C10_WitnessExample ==
  /\ lsource = <<"#", "1", "2", ";">>
  /\ lstate = "raised"
  /\ lerror = LexerError("Invalid hex color", <<"#", "1", "2">>, 1, 1)
  /\ tokens = <<>>
-----------------------------------------------------------------------------
\* tokenize stands at a '#' that 7 or more hex characters follow
AtLongHex ==
  /\ lstate = "scanning"
  /\ StartChar = "#"
  /\ HexRun(lsource, AtIndex) >= 7

-----------------------------------------------------------------------------
\* the index one past the last character of the source
EndIndex == Len(lsource) + 1

C12_EndsWithOneEOF ==
  /\ Len(tokens) >= 1
  /\ tokens[Len(tokens)] =
       Token("EOF", <<>>, LineOf(lsource, EndIndex), ColumnOf(lsource, EndIndex))
  /\ tokens[Len(tokens)].line = sc.line
  /\ tokens[Len(tokens)].column = sc.column
  /\ sc.pos = Len(lsource)
  /\ \A i \in 1..(Len(tokens) - 1) : tokens[i].type # "EOF"

\* C12: every token list tokenize returns holds exactly one EOF token, as
\* its last element, with an empty value and the line and column the scanner
\* has after the whole input; no INVALID token is ever emitted
C12_OneEOFLast ==
  /\ lstate = "returned" => C12_EndsWithOneEOF
  /\ \A i \in 1..Len(tokens) : tokens[i].type # "INVALID"

\* a number and then a newline and a space: EOF at line 2, column 2
C12_Witness ==
  /\ lstate = "returned"
  /\ tcalls = 1
  /\ lsource = <<"1", "2", ".", "5", "\n", " ">>
  /\ Len(tokens) = 2
  /\ tokens[2] = Token("EOF", <<>>, 2, 2)

\* the empty source returns the EOF token alone, at line 1, column 1
C12_WitnessEmpty ==
  /\ lstate = "returned"
  /\ lsource = <<>>
  /\ tokens = <<Token("EOF", <<>>, 1, 1)>>

\* a source of a comment and whitespace returns the EOF token alone
C12_WitnessComment ==
  /\ lstate = "returned"
  /\ lsource = <<"/", "/", "#", "1", "\n", " ">>
  /\ tokens = <<Token("EOF", <<>>, 2, 2)>>
-----------------------------------------------------------------------------
\* the newlines among the first n characters of a source
NewlinesIn(src, n) == Cardinality({j \in 1..n : src[j] = "\n"})

\* the characters of the first n that stand after the last newline among them
SinceNewline(src, n) ==
  Cardinality({j \in 1..n : \A k \in j..n : src[k] # "\n"})

\* the scanner's line and column count what it has consumed
C13_ScannerCounts ==
  /\ sc.pos \in 0..Len(lsource)
  /\ sc.line = 1 + NewlinesIn(lsource, sc.pos)
  /\ sc.column = 1 + SinceNewline(lsource, sc.pos)

\* a token stands at index i of the source: its value is the text there
\* and its line and column are those of i
TokenStandsAt(tok, i) ==
  /\ tok.line = 1 + NewlinesIn(lsource, i - 1)
  /\ tok.column = 1 + SinceNewline(lsource, i - 1)
  /\ i + Len(tok.value) - 1 <= Len(lsource)
  /\ SubSeq(lsource, i, i + Len(tok.value) - 1) = tok.value

\* C13: at every point of a scan line is 1 + the newlines consumed and
\* column is 1 + the characters consumed since the last consumed newline;
\* every emitted token's line and column are the 1-based position of its
\* first character in the source
C13_PositionsCount ==
  /\ C13_ScannerCounts
  /\ \A k \in 1..Len(tokens) : \E i \in 1..EndIndex : TokenStandsAt(tokens[k], i)

\* a keyword after a newline and a space stands at line 2, column 2
C13_Witness ==
  /\ lsource = <<"\n", " ", "p", "x">>
  /\ lstate = "returned"
  /\ tcalls = 1
  /\ tokens[1] = Token("PX", <<"p", "x">>, 2, 2)
  /\ sc = [pos |-> 4, line |-> 2, column |-> 4]

\* a tab and a carriage return count one column each
C13_WitnessTab ==
  /\ lsource = <<"\t", "\r", "p", "x">>
  /\ lstate = "returned"
  /\ tokens[1] = Token("PX", <<"p", "x">>, 1, 3)
-----------------------------------------------------------------------------
DecimalDigits == {"0", "1", "2", "3", "4", "5", "6", "7", "8", "9"}

\* the length of the maximal run of digits that starts at index i
RECURSIVE DigitRun(_, _)
DigitRun(src, i) ==
  IF i <= Len(src) /\ src[i] \in DecimalDigits THEN 1 + DigitRun(src, i + 1) ELSE 0

\* the length of the number that starts at index i: its digits, and a '.'
\* with the digits after it when a digit follows the '.'
NumberLength(src, i) ==
  LET j == i + DigitRun(src, i)
  IN IF j < Len(src) /\ src[j] = "." /\ src[j + 1] \in DecimalDigits
       THEN DigitRun(src, i) + 1 + DigitRun(src, j + 1)
       ELSE DigitRun(src, i)

\* tokenize stands at a digit
AtDigit == lstate = "scanning" /\ StartChar \in DecimalDigits

C14_NumberAppended ==
  /\ tokens' = Append(tokens,
       Token("NUMBER",
             SubSeq(lsource, AtIndex, AtIndex + NumberLength(lsource, AtIndex) - 1),
             LineOf(lsource, AtIndex), ColumnOf(lsource, AtIndex)))
  /\ sc'.pos = AtIndex - 1 + NumberLength(lsource, AtIndex)
  /\ lstate' = "scanning"

\* C14: a digit starts a NUMBER token whose value is the maximal run of
\* digits, extended by '.' and the maximal digit run after it only when a
\* digit follows the '.'; the scan goes on right after the number, so a '.'
\* no digit follows is never part of it
C14_NumberIsMaximalRun == [][AtDigit => C14_NumberAppended]_vars

\* '7.' has lexed NUMBER '7' and failed on the '.'
C14_Witness ==
  /\ lsource = <<"7", ".">>
  /\ tokens = <<Token("NUMBER", <<"7">>, 1, 1)>>
  /\ lstate = "raised"
  /\ lerror = LexerError("Unexpected character", <<".">>, 1, 2)

\* '12.5.3' has lexed NUMBER '12.5' and failed on the second '.'
C14_WitnessSecondDot ==
  /\ lsource = <<"1", "2", ".", "5", ".", "3">>
  /\ tokens = <<Token("NUMBER", <<"1", "2", ".", "5">>, 1, 1)>>
  /\ lstate = "raised"
  /\ lerror = LexerError("Unexpected character", <<".">>, 1, 5)
-----------------------------------------------------------------------------
Letters ==
  {LowerLetters[i] : i \in 1..Len(LowerLetters)}
  \cup {UpperLetters[i] : i \in 1..Len(UpperLetters)}

\* the length of the maximal run of letters, digits and underscores that
\* starts at index i
RECURSIVE WordRun(_, _)
WordRun(src, i) ==
  IF i <= Len(src) /\ src[i] \in Letters \cup DecimalDigits \cup {"_"}
    THEN 1 + WordRun(src, i + 1)
    ELSE 0

\* the keyword token type of a lower-cased word, "COLOR_NAME" for any other
WordType(word) ==
  CASE word = <<"p","x">> -> "PX"
    [] word = <<"l","e","f","t">> -> "LEFT"
    [] word = <<"t","o","p">> -> "TOP"
    [] word = <<"w">> -> "WIDTH"
    [] word = <<"h">> -> "HEIGHT"
    [] word = <<"f","i","l","l">> -> "FILL"
    [] word = <<"o","u","t","s","i","d","e">> -> "OUTSIDE"
    [] word = <<"r","o","u","n","d","e","d">> -> "ROUNDED"
    [] word = <<"r","e","c","t","a","n","g","l","e">> -> "RECTANGLE"
    [] word = <<"c","i","r","c","l","e">> -> "CIRCLE"
    [] word = <<"l","i","n","e">> -> "LINE"
    [] OTHER -> "COLOR_NAME"

\* tokenize stands at a letter
AtLetter == lstate = "scanning" /\ StartChar \in Letters

\* the identifier text that starts where tokenize stands
WordHere == SubSeq(lsource, AtIndex, AtIndex + WordRun(lsource, AtIndex) - 1)

C15_WordAppended ==
  /\ tokens' = Append(tokens,
       Token(WordType(Lower(WordHere)), WordHere,
             LineOf(lsource, AtIndex), ColumnOf(lsource, AtIndex)))
  /\ sc'.pos = AtIndex - 1 + WordRun(lsource, AtIndex)
  /\ lstate' = "scanning"

\* C15: a letter starts an identifier, the maximal run of letters, digits
\* and underscores; its token is the keyword token of the table exactly when
\* the whole identifier, lower-cased, is a keyword, and a COLOR_NAME
\* otherwise; the token value is the identifier as written
C15_IdentifierOrKeyword == [][AtLetter => C15_WordAppended]_vars

\* 'Rectangle' is a RECTANGLE token whose value keeps its case
C15_Witness ==
  /\ lsource = <<"R","e","c","t","a","n","g","l","e">>
  /\ lstate = "returned"
  /\ tcalls = 1
  /\ tokens[1] = Token("RECTANGLE", <<"R","e","c","t","a","n","g","l","e">>, 1, 1)

\* 'Rectangles' and 'px7' are COLOR_NAME tokens
C15_WitnessLonger ==
  /\ lstate = "returned"
  /\ tcalls = 1
  /\ \/ /\ lsource = <<"R","e","c","t","a","n","g","l","e","s">>
        /\ tokens[1] = Token("COLOR_NAME", lsource, 1, 1)
     \/ /\ lsource = <<"p","x","7">>
        /\ tokens[1] = Token("COLOR_NAME", lsource, 1, 1)
-----------------------------------------------------------------------------
\* a '//' starts at index i
CommentStartsAt(src, i) == i < Len(src) /\ src[i] = "/" /\ src[i + 1] = "/"

\* tokenize stands at a character that starts nothing
AtStray ==
  /\ lstate = "scanning"
  /\ AtIndex <= Len(lsource)
  /\ ~CommentStartsAt(lsource, AtIndex)
  /\ lsource[AtIndex] \notin
       DecimalDigits \cup Letters \cup {"#", ",", ";", ":", " ", "\t", "\n", "\r"}

C16_RaisedAtStray ==
  /\ lstate' = "raised"
  /\ lerror' = LexerError("Unexpected character", <<lsource[AtIndex]>>,
                          LineOf(lsource, AtIndex), ColumnOf(lsource, AtIndex))
  /\ tokens' = tokens

\* C16: a character that is not whitespace, not the start of a '//'
\* comment, not a digit, '#', a letter, ',', ';' or ':' makes tokenize raise
\* a LexerError carrying that character's line and column; tokenize returns
\* no token list
C16_StrayCharacterRaises == [][AtStray => C16_RaisedAtStray]_vars

\* a single '/' on the second line, second column
C16_Witness ==
  /\ lsource = <<"\n", " ", "/">>
  /\ lstate = "raised"
  /\ lerror = LexerError("Unexpected character", <<"/">>, 2, 2)
  /\ tokens = <<>>

\* '_' at the start of a token, and '-' after a token
C16_WitnessUnderscore ==
  /\ lsource = <<"_", "s">>
  /\ lstate = "raised"
  /\ lerror = LexerError("Unexpected character", <<"_">>, 1, 1)

C16_WitnessMinus ==
  /\ lsource = <<"7", "-">>
  /\ lstate = "raised"
  /\ lerror = LexerError("Unexpected character", <<"-">>, 1, 2)
  /\ Len(tokens) = 1
-----------------------------------------------------------------------------
\* a tokenize call on the Lexer has ended, returning or raising
CallEnded == lstate \in {"returned", "raised"}

\* what the tokenize call that just ended has left
CallLeft ==
  [state |-> lstate, tokens |-> tokens, error |-> lerror, sc |-> sc]

\* C20: every tokenize invocation scans the whole source from position 0,
\* line 1, column 1: on a source that lexes, a call of tokenize() on a Lexer
\* that was already used returns the token sequence tokenize_string returns
\* for the source, which is what the first call returned
C20_EveryCallScansWholeSource ==
  (lstate = "returned" /\ tokenize_string(lsource).state = "returned")
    => tokens = tokenize_string(lsource).tokens

\* the first tokenize call of a Lexer ends as tokenize_string does
FirstCallIsTokenizeString ==
  (CallEnded /\ tcalls = 1) => CallLeft = tokenize_string(lsource)
-----------------------------------------------------------------------------
\* the types and values of a token sequence
TypesAndValues(toks) == [k \in 1..Len(toks) |-> <<toks[k].type, toks[k].value>>]

\* the index of a source at a line and column
IndexOf(src, line, column) ==
  CHOOSE i \in 1..(Len(src) + 1) : LineOf(src, i) = line /\ ColumnOf(src, i) = column

\* the places of a source, as the number of characters before them, right
\* before the first or right after the last character of one of its tokens
TokenEdges(src) ==
  LET toks == tokenize_string(src).tokens
  IN UNION {{IndexOf(src, toks[k].line, toks[k].column) - 1,
             IndexOf(src, toks[k].line, toks[k].column) - 1 + Len(toks[k].value)}
            : k \in 1..Len(toks)}

\* a run of space, tab, CR and LF
WhitespaceRun(f) ==
  /\ Len(f) >= 1
  /\ \A i \in 1..Len(f) : f[i] \in {" ", "\t", "\r", "\n"}

\* a '//' comment with the newline that ends it; before rest, the end of
\* the input or a newline may end it instead
CommentRun(f, rest) ==
  /\ Len(f) >= 2
  /\ f[1] = "/" /\ f[2] = "/"
  /\ \A i \in 3..(Len(f) - 1) : f[i] # "\n"
  /\ \/ Len(f) >= 3 /\ f[Len(f)] = "\n"
     \/ f[Len(f)] # "\n" /\ (rest = <<>> \/ rest[1] = "\n")

\* the source is before ++ filler ++ rest, the filler whitespace or a
\* comment put between two tokens of the source before ++ rest, which lexes
InsertedBetweenTokens(before, filler, rest) ==
  /\ WhitespaceRun(filler) \/ CommentRun(filler, rest)
  /\ tokenize_string(before \o rest).state = "returned"
  /\ Len(before) \in TokenEdges(before \o rest)

\* the tokens returned for the source are those of the source without the
\* insertion, whichever part of the source is taken for the insertion
C17_SameTokensWithout ==
  \A i \in 0..Len(lsource) : \A j \in (i + 1)..Len(lsource) :
    LET before == SubSeq(lsource, 1, i)
        filler == SubSeq(lsource, i + 1, j)
        rest == SubSeq(lsource, j + 1, Len(lsource))
    IN InsertedBetweenTokens(before, filler, rest)
         => /\ lstate # "raised"
            /\ lstate = "returned" =>
                 TypesAndValues(tokens) =
                   TypesAndValues(tokenize_string(before \o rest).tokens)

\* the index of the first newline at or after index i, 0 when there is none
NewlineFrom(src, i) ==
  IF \E n \in i..Len(src) : src[n] = "\n"
    THEN CHOOSE n \in i..Len(src) : src[n] = "\n" /\ \A m \in i..(n - 1) : src[m] # "\n"
    ELSE 0

\* tokenize stands at a '//'
AtSlashes == lstate = "scanning" /\ CommentStartsAt(lsource, AtIndex)

\* the comment is consumed with its newline, and nothing is appended
C17_CommentConsumed ==
  /\ tokens' = tokens
  /\ lstate' = "scanning"
  /\ IF NewlineFrom(lsource, AtIndex) = 0
       THEN sc' = [pos |-> Len(lsource), line |-> LineOf(lsource, AtIndex),
                   column |-> ColumnOf(lsource, EndIndex)]
       ELSE sc' = [pos |-> NewlineFrom(lsource, AtIndex),
                   line |-> LineOf(lsource, AtIndex) + 1, column |-> 1]

\* C17: whitespace and comments produce no tokens and do not change the
\* others: a run of space/tab/CR/LF, or a '//' comment running to the next
\* newline (or the end of input), put between two tokens of a source leaves
\* the types and values of the tokens tokenize returns unchanged; a comment
\* consumes the newline that ends it, which advances line by one
C17_FillersChangeNoToken ==
  /\ []((tcalls = 1 /\ CallEnded) => C17_SameTokensWithout)
  /\ [][AtSlashes => C17_CommentConsumed]_vars

\* '7px' with a comment and its newline put between the two tokens
C17_Witness ==
  /\ lsource = <<"7", "/", "/", "c", ";", "\n", "p", "x">>
  /\ lstate = "returned"
  /\ tcalls = 1
  /\ TypesAndValues(tokens) =
       <<<<"NUMBER", <<"7">>>>, <<"PX", <<"p", "x">>>>, <<"EOF", <<>>>>>>
  /\ tokens[2].line = 2

\* '7px' with a tab and a carriage return put between the two tokens
C17_WitnessWhitespace ==
  /\ lsource = <<"7", "\t", "\r", "p", "x">>
  /\ lstate = "returned"
  /\ tcalls = 1
  /\ TypesAndValues(tokens) =
       <<<<"NUMBER", <<"7">>>>, <<"PX", <<"p", "x">>>>, <<"EOF", <<>>>>>>
-----------------------------------------------------------------------------
\* the Shapes of the statements of a text, one per ';', in order
ShapesOf(toks) ==
  [k \in 1..Cardinality(SemiIdx(toks)) |-> ExpectedShape(StmtOf(toks, k))]

\* C19: parse is all-or-nothing: a call that raises (grammar violation or
\* missing width/height) returns no ShapeList, also when earlier statements
\* were already reduced to Shapes, and keeps none of them; a call that
\* returns has met no statement without w or h and gives the Shapes of its
\* own text alone, whatever calls failed before it on the same Parser
C19_AllOrNothing ==
  /\ pstate = "raised" => (result = None /\ shapes = <<>> /\ args = <<>>)
  /\ pstate = "returned" =>
       /\ \A k \in 1..Cardinality(SemiIdx(source)) : ~LacksSize(StmtOf(source, k))
       /\ result = [shapes |-> ShapesOf(source)]

\* a call has raised at a later statement, after the first one was reduced
FailedAfterReduction(src, err) ==
  /\ err.type # ""
  /\ Cardinality(SemiIdx(src)) >= 2
  /\ ~LacksSize(StmtOf(src, 1))

\* a call returns one Shape after an earlier call on the same Parser had
\* reduced a statement and then raised
C19_Witness ==
  /\ pstate = "returned"
  /\ Len(result.shapes) = 1
  /\ \E src \in DOMAIN first :
       /\ FailedAfterReduction(src, first[src].error)
       /\ first[src].call < calls

\* a call has just raised ValueError at its second statement
C19_WitnessRaised ==
  /\ pstate = "raised"
  /\ error.type = "ValueError"
  /\ FailedAfterReduction(source, error)
  /\ result = None

\* a call has just raised on a grammar violation after its first statement
C19_WitnessSyntax ==
  /\ pstate = "raised"
  /\ error.type = "UnexpectedInput"
  /\ \E j \in SemiIdx(source) : j < ip
  /\ result = None
-----------------------------------------------------------------------------
\* the label compile_string gives each kind of failure, by the claim
LabelOf(kind) ==
  CASE kind = "lexical" -> "Lexical error"
    [] kind = "syntax" -> "Compilation error"
    [] kind = "semantic" -> "Semantic error"

\* C18: compile_string reports a source with a lexical fault (unexpected
\* character, malformed hex) as a lexical error, a grammar violation as a
\* syntax/other error and a missing width or height as a semantic error,
\* three different labels, whether the compiler is verbose or not
C18_FailureKindsToldApart ==
  cstate \in {"returned", "raised"} =>
    /\ csource \in LexicalFaults => (cstate = "raised" /\ clabel = LabelOf("lexical"))
    /\ csource \in SyntaxFaults => (cstate = "raised" /\ clabel = LabelOf("syntax"))
    /\ csource \in SemanticFaults => (cstate = "raised" /\ clabel = LabelOf("semantic"))
    /\ Cardinality({LabelOf(k) : k \in {"lexical", "syntax", "semantic"}}) = 3

\* what a verbose compiler does holds the claim
VerboseKindsToldApart == verbose => C18_FailureKindsToldApart
-----------------------------------------------------------------------------
\* C21: a lexical error yields no partial result: after tokenize has raised
\* a LexerError, get_tokens() on that Lexer exposes none of the tokens
\* scanned before the offending character
C21_NoPartialTokens == lstate = "raised" => get_tokens = <<>>
-----------------------------------------------------------------------------
\* toks is the start of the sequence all
IsPrefix(toks, all) == Len(toks) <= Len(all) /\ SubSeq(all, 1, Len(toks)) = toks

\* the source up to the character one beyond the scan position
WithinLookahead ==
  SubSeq(lsource, 1, IF sc.pos + 2 <= Len(lsource) THEN sc.pos + 2 ELSE Len(lsource))

\* what the first call has done so far is what it does on the source cut one
\* character beyond pos: it has looked at nothing further
C22_LooksOneAhead ==
  (tcalls = 1 /\ lstate # "ready") =>
    /\ IsPrefix(tokens, tokenize_string(WithinLookahead).tokens)
    /\ lstate = "raised" => lerror = tokenize_string(WithinLookahead).error

\* a turn of the loop moves pos forward or raises; pos never moves back
C22_TurnAdvances ==
  /\ sc'.pos >= sc.pos
  /\ lstate = "scanning" => (sc'.pos > sc.pos \/ lstate' \in {"raised", "returned"})
  /\ (lstate = "scanning" /\ lstate' = "returned" /\ sc.pos < Len(lsource)) => sc'.pos > sc.pos

\* the rest of the running scan comes to an end, with a token list or a
\* LexerError, no further back than pos
C22_RestEnds ==
  lstate = "scanning" =>
    /\ TokenizeLoop(lsource, sc, tokens).state \in {"returned", "raised"}
    /\ TokenizeLoop(lsource, sc, tokens).sc.pos \in sc.pos..Len(lsource)

\* C22: tokenize terminates on every finite source: pos never decreases and
\* stays within 0..len(source), the scanner looks at no character more than
\* one beyond pos, every turn of the main loop increases pos (by at least
\* one, up to len(source) at most, so the turns are finitely many) or raises
\* a LexerError, and on normal return pos = len(source)
C22_TokenizeTerminates ==
  /\ [](sc.pos \in 0..Len(lsource))
  /\ [](C22_LooksOneAhead)
  /\ [](C22_RestEnds)
  /\ [][C22_TurnAdvances]_vars
  /\ [](lstate = "returned" => sc.pos = Len(lsource))

\* a source of a comment, whitespace and two tokens has been scanned to its
\* end in four turns of the loop
C22_Witness ==
  /\ lsource = <<"/", "/", "#", "1", "\n", " ">>
  /\ lstate = "returned"
  /\ tcalls = 1
  /\ sc.pos = Len(lsource)

\* a number whose '.' no digit follows: the scan stopped on the '.', having
\* looked one character beyond it
C22_WitnessLookahead ==
  /\ lsource = <<"1", "2", ".", "5", ".", "3">>
  /\ lstate = "raised"
  /\ sc.pos = 4
-----------------------------------------------------------------------------
\* the parser stands at the end of a grammar-valid statement that has a w
\* clause and an h clause
AtSizedStatementEnd ==
  /\ pstate = "parsing"
  /\ ShapeEndAt(source, ip)
  /\ ~LacksSize(CurrentStmt)

\* the statement is reduced to a Shape whose Size carries the numbers of
\* its last w and h clauses
C23_ShapeBuilt ==
  /\ pstate' = "parsing"
  /\ Len(shapes') = Len(shapes) + 1
  /\ shapes'[Len(shapes')].size =
       [width |-> Denotes(LastValue(CurrentStmt, "width")),
        height |-> Denotes(LastValue(CurrentStmt, "height"))]

\* C23: width or height counts as missing only when the statement has no
\* w: / h: clause: a statement with both clauses is accepted whatever their
\* numbers, w:0px and h:0px included, and yields a Size carrying them; the
\* 'Width and height are required' error is raised at a statement that
\* lacks a clause alone
C23_ZeroIsNotMissing ==
  /\ [][AtSizedStatementEnd => C23_ShapeBuilt]_vars
  /\ []((pstate = "raised" /\ error.type = "ValueError") => LacksSize(CurrentStmt))

\* 'w:0px, h:0px, circle;' has returned a Shape of width 0 and height 0
C23_Witness ==
  /\ pstate = "returned"
  /\ source = WidthC(N0) \o HeightC(N0) \o EndC(KCircle)
  /\ result.shapes[1].size = [width |-> Zero, height |-> Zero]

\* a zero width beside a decimal height
C23_WitnessZeroWidth ==
  /\ pstate = "returned"
  /\ source = WidthC(N0) \o HeightC(N12p50) \o EndC(KCircle)
  /\ result.shapes[1].size.width = Zero
  /\ result.shapes[1].size.height = [whole |-> 12, frac |-> <<"5">>]
-----------------------------------------------------------------------------
\* a statement that sets left, fill and rounded beside w and h, and one that
\* sets w and h alone
C24_Decorated ==
  LeftC(N12p50) \o FillC(NameGrey) \o RoundedC \o WidthC(N10) \o HeightC(N20) \o EndC(KLine)

C24_Bare == WidthC(N10) \o HeightC(N20) \o EndC(KLine)

\* the parser stands at the end of a grammar-valid statement without a w
\* clause or without an h clause
AtUnsizedStatementEnd ==
  /\ pstate = "parsing"
  /\ ShapeEndAt(source, ip)
  /\ LacksSize(CurrentStmt)

\* C24: each statement starts from a fresh default property set: the Shape
\* reduced from a statement is the one its own clauses and the defaults
\* give, whatever the statements before it in the source or in earlier
\* parse calls set, and a statement without w or h raises whatever w and h
\* a statement before it had
C24_FreshPerStatement ==
  /\ [][AtSizedStatementEnd => shapes' = Append(shapes, ExpectedShape(CurrentStmt))]_vars
  /\ [][AtUnsizedStatementEnd => (pstate' = "raised" /\ error'.type = "ValueError")]_vars

\* the bare statement after the decorated one, in one source: the second
\* Shape has the defaults
C24_Witness ==
  /\ pstate = "returned"
  /\ source = C24_Decorated \o C24_Bare
  /\ result.shapes[1].rounded = TRUE
  /\ result.shapes[1].position.x # Zero
  /\ result.shapes[2].position = [x |-> Zero, y |-> Zero]
  /\ result.shapes[2].fill_color = BlackColor
  /\ result.shapes[2].rounded = FALSE

\* the bare statement parsed by the call after the one that parsed the
\* decorated statement
C24_WitnessLaterCall ==
  /\ pstate = "returned"
  /\ source = C24_Bare
  /\ C24_Decorated \in DOMAIN first
  /\ first[C24_Decorated].call = calls - 1
  /\ props.rounded = Some(FALSE)
  /\ result.shapes[1].rounded = FALSE

\* a statement without h has raised right after a statement with w and h
C24_WitnessRequired ==
  /\ pstate = "raised"
  /\ source = C24_Bare \o WidthC(N10) \o EndC(KLine)
  /\ error.type = "ValueError"
  /\ props.width # None
-----------------------------------------------------------------------------
\* the calls a run makes when parse raises, and when there is no code
C25_FailedTrace ==
  <<Call("update_status", "Compiling..."), Call("parse", editor.words),
    Call("update_status", "Error"), Call("showerror", error.type)>>

C25_RejectedTrace == <<Call("update_status", "No code to compile")>>

\* text is nothing but space, tab, CR and LF
C25_OnlyWhitespace(text) == \A i \in 1..Len(text) : text[i] \in {" ", "\t", "\r", "\n"}

\* C25: a failed compile leaves the picture untouched: from the press of
\* Compile to the error dialog the canvas is neither cleared nor drawn on,
\* and the run has called nothing but update_status, parse and the dialog;
\* an editor that holds nothing or only whitespace is rejected with 'No code
\* to compile' without parsing, clearing or drawing
C25_FailureLeavesPicture ==
  /\ [][astate' \in {"parsing", "failed", "rejected"} => canvas' = canvas]_vars
  /\ [][astate' = "rejected" => (UNCHANGED pvars /\ dialogs' = dialogs)]_vars
  /\ [](astate = "failed" => (pstate = "raised" /\ trace = C25_FailedTrace))
  /\ [](astate = "rejected" =>
          (trace = C25_RejectedTrace /\ status.text = "No code to compile"))
  /\ [](astate \in {"parsing", "failed", "drawing", "rendered"}
          <=> ~C25_OnlyWhitespace(EditorText(editor)))

\* a compile has failed after its first statement was reduced, and the
\* drawing of the compile before it is still on the canvas
C25_Witness ==
  /\ astate = "failed"
  /\ \E j \in SemiIdx(source) : j < ip
  /\ Len(canvas) = 2
  /\ dialogs = 1
  /\ calls = 2

\* an editor of whitespace was rejected, the drawing left on the canvas
C25_WitnessRejected ==
  /\ astate = "rejected"
  /\ editor.lead # <<>>
  /\ Len(canvas) = 1
  /\ calls = 1
-----------------------------------------------------------------------------
\* the draw_shape calls of a list of Shapes, in list order
C26_Draws(ss) == [i \in 1..Len(ss) |-> Call("draw_shape", ss[i])]

\* the places of a call in the trace
C26_Places(name) == {i \in 1..Len(trace) : trace[i].call = name}

\* C26: on a successful compile_and_render parse returns, then the canvas
\* is cleared once, then every Shape of the ShapeList is drawn once, in list
\* order, then the screen is updated and the status reports success and
\* the number of Shapes; at no point of a run is a Shape drawn before the
\* clear or the canvas cleared twice
C26_RenderOrder ==
  /\ astate = "rendered" =>
       /\ trace = <<Call("update_status", "Compiling..."), Call("parse", editor.words),
                    Call("clear_canvas", <<>>)>>
                  \o C26_Draws(result.shapes)
                  \o <<Call("screen.update", <<>>),
                       Call("update_status", "Compiled successfully")>>
       /\ canvas = result.shapes
       /\ status = Status("Compiled successfully", "success", Len(result.shapes))
  /\ Cardinality(C26_Places("clear_canvas")) <= 1
  /\ \A i \in C26_Places("draw_shape") : \E j \in C26_Places("clear_canvas") : j < i
  /\ \A i \in C26_Places("clear_canvas") : \E j \in C26_Places("parse") : j < i /\ pstate = "returned"

\* two Shapes were rendered over the drawing of an earlier compile: the
\* circle first, the line on top
C26_Witness ==
  /\ astate = "rendered"
  /\ calls = 2
  /\ editor.words = ExampleOrder
  /\ Len(canvas) = 2
  /\ canvas[1].shape_type = KCircle.value
  /\ canvas[2].shape_type = KLine.value
  /\ status.shapes = 2
-----------------------------------------------------------------------------
\* compile_file has raised for a missing input or a failed compilation
C27_Failed ==
  /\ fstate = "raised"
  /\ ferror # ""
  /\ ~finput[1].exists \/ cstate = "raised"

\* C27: compile_file writes the output file only after compile_string has
\* returned, and with the code it returned; it runs the program only after
\* the file was written, and runs what was written; when the input file
\* does not exist or compilation fails, it raises CompilerError, the output
\* file is neither created nor modified and nothing is run
C27_WriteAfterCompileRunAfterWrite ==
  /\ [][output' # output =>
          (fstate = "compiling" /\ cstate = "returned" /\ output' = ccode)]_vars
  /\ [][executed' # executed =>
          (fstate = "written" /\ output = ccode /\ executed' = <<output[1]>>)]_vars
  /\ [][fstate' \in {"compiling", "raised"} => (output' = output /\ executed' = executed)]_vars
  /\ [](fstate = "raised" => (C27_Failed /\ executed = <<>>))
  /\ []((fstate \in {"compiling", "raised"} /\ (~finput[1].exists \/ cstate = "raised"))
          => fstate \in {"compiling", "raised"} /\ executed = <<>>)
  /\ [][(fstate = "compiling" /\ cstate = "raised") => fstate' = "raised"]_vars

\* a compilation with run set failed on a semantic error after the first
\* statement was reduced: the old output file is as it was, nothing was run
C27_Witness ==
  /\ fstate = "raised"
  /\ run
  /\ ferror = "Semantic error"
  /\ \E j \in SemiIdx(source) : j < ip
  /\ output = Some(OldProgram)
  /\ executed = <<>>

\* the input file is missing: no output file has appeared
C27_WitnessMissing ==
  /\ fstate = "raised"
  /\ ~finput[1].exists
  /\ output = None
  /\ calls = 0

\* a program was compiled, written over the old output file, and run
C27_WitnessRun ==
  /\ fstate = "returned"
  /\ run
  /\ output # Some(OldProgram)
  /\ executed = <<generate(result)>>
-----------------------------------------------------------------------------
\* C28: compile_string returns the generated code or raises CompilerError:
\* a LexerError, a ValueError or a parser exception leaves it wrapped in a
\* CompilerError, verbose or not; the code generator runs only after parse
\* has returned a ShapeList; a verbose compiler whose lexer raises does not
\* call parse
C28_ReturnsCodeOrCompilerError ==
  /\ [](cstate = "raised" =>
          /\ cexc = "CompilerError"
          /\ clabel \in {"Lexical error", "Semantic error", "Compilation error"}
          /\ ccode = None)
  /\ [](cstate = "returned" =>
          (cexc = "" /\ pstate = "returned" /\ ccode = Some(generate(result))))
  /\ [](ccode # None => (cstate = "returned" /\ pstate = "returned"))
  /\ [][(cstate = "parsing" /\ pstate = "raised") =>
          (cstate' = "raised" /\ cexc' = "CompilerError")]_vars
  /\ [][(cstate' = "raised" /\ clabel' = "Lexical error") =>
          (verbose /\ lstate' = "raised" /\ UNCHANGED pvars)]_vars
  /\ []((verbose /\ cstate # "idle" /\ lstate = "raised") => (cstate = "raised" /\ calls = 0))

\* a verbose compiler has raised on a lexical fault without calling parse
C28_Witness ==
  /\ verbose
  /\ cstate = "raised"
  /\ cexc = "CompilerError"
  /\ clabel = "Lexical error"
  /\ calls = 0

\* a ValueError of the transformer has left wrapped, from a quiet compiler
C28_WitnessValueError ==
  /\ ~verbose
  /\ cstate = "raised"
  /\ error.type = "ValueError"
  /\ cexc = "CompilerError"

\* a grammar violation has left wrapped
C28_WitnessParser ==
  /\ cstate = "raised"
  /\ error.type = "UnexpectedInput"
  /\ cexc = "CompilerError"

\* code was generated for a ShapeList of one Shape
C28_WitnessCode ==
  /\ cstate = "returned"
  /\ ccode = Some(generate(result))
  /\ Len(result.shapes) = 1
====
